---- MODULE Spec2Model ----
(***************************************************************************)
(* A model of pki_token_network/core.py: the SecureToken record, the       *)
(* PKITokenNetwork in-memory state (token map, registered master token,    *)
(* master key pair, node key pairs), its directory-backed store, and the   *)
(* issuance and verification operations.                                    *)
(*                                                                         *)
(* Every Python value that the code formats into a string is a string      *)
(* here: identifiers, timestamps, uuids, hashes, keys and signatures.      *)
(* sha256 is an injective function of the formatted content string and a   *)
(* signature verifies exactly under the key pair that made it over the     *)
(* content it was made over.                                               *)
(***************************************************************************)
EXTENDS Integers, Sequences, FiniteSets, TLC

\* ---------------------------------------------------------------- bounds
NumNodes == 3
MaxFresh == 8
MaxEdits == 1
MaxFileEdits == 2
NumFileNodes == 2
MaxFaults == 1
MaxIdChars == 2

\* ------------------------------------------------------- value universes
\* Python's None; no identifier, hash, key or signature is this string.
None == "<None>"

NodeNames == <<"master", "a", "b", "c", "d">>
Nodes == {NodeNames[i] : i \in 1..NumNodes}
\* the nodes of the sessions whose directory is edited from outside
FileNodes == {NodeNames[i] : i \in 1..NumFileNodes}
InvalidId == "bad@id"
Ids == Nodes \cup {InvalidId}

\* readings of datetime.now(timezone.utc).isoformat()
Timestamps == {"t1"}
\* the token_data argument: omitted (None) or a caller's string
DataInputs == {None}

\* str(uuid.uuid4()) and rsa.generate_private_key(): the n-th draw
FreshNames == <<"1", "2", "3", "4", "5", "6", "7", "8", "9", "10", "11", "12">>
Uuid4(n) == "u" \o FreshNames[n]
KeyName(n) == "k" \o FreshNames[n]

\* ----------------------------------------------------------- SecureToken
\* f"{x}" of an Optional[str]
Fmt(x) == IF x = None THEN "None" ELSE x

Sha256Hex(content) == "sha256(" \o content \o ")"

\* identifiers as the strings of their characters: the short ones over an
\* alphabet with a letter, a digit, two of the allowed punctuation characters
\* and a character that is not allowed; one with an upper-case letter and
\* the third punctuation character; long ones around the length limit
MaxIdLen == 64
IdAlphabet == {"a", "7", "-", ".", "@"}
RECURSIVE Join(_)
Join(cs) == IF cs = <<>> THEN "" ELSE cs[1] \o Join(Tail(cs))
Repeat(ch, n) == [i \in 1..n |-> ch]
IdInputs ==
    UNION {[1..k -> IdAlphabet] : k \in 0..MaxIdChars}
    \cup {Repeat("a", n) : n \in {MaxIdLen - 1, MaxIdLen, MaxIdLen + 1}}
    \cup {Append(Repeat("a", MaxIdLen - 1), ch) : ch \in {"-", "@"}}
    \cup {Repeat("-", MaxIdLen), <<"Z", "_", "7">>}
IdStrings == {Join(cs) : cs \in IdInputs}
CharsOf == [id \in IdStrings |-> CHOOSE cs \in IdInputs : Join(cs) = id]

\* the characters of an identifier, for the constructor's checks
IdChars(id) ==
    CASE id = "master" -> <<"m", "a", "s", "t", "e", "r">>
      [] id = "bad@id" -> <<"b", "a", "d", "@", "i", "d">>
      [] id = "" -> <<>>
      [] id \in {"a", "b", "c", "d"} -> <<id>>
      [] OTHER -> CharsOf[id]

\* str.isalnum(): every character is a letter or a digit and there is one
AlnumChars == {"a", "b", "c", "d", "e", "i", "m", "r", "s", "t", "Z", "7"}
IsAlnum(cs) == Len(cs) > 0 /\ \A i \in 1..Len(cs) : cs[i] \in AlnumChars

\* SecureToken.__init__, the three identifier checks: the message of the
\* ValueError raised, None when the identifier passes
ErrIdEmpty == "Node ID must be a non-empty string"
ErrIdTooLong == "Node ID must be 64 characters or less"
ErrIdChars == "Node ID must contain only alphanumeric characters, hyphens, underscores, and dots"
NodeIdError(id) ==
    IF id = None THEN ErrIdEmpty
    ELSE LET cs == IdChars(id)
             kept == SelectSeq(cs, LAMBDA ch : ch \notin {"_", "-", "."})
         IN  IF Len(cs) = 0 THEN ErrIdEmpty
             ELSE IF Len(cs) > MaxIdLen THEN ErrIdTooLong
             ELSE IF ~IsAlnum(kept) THEN ErrIdChars
             ELSE None

ValidNodeId(id) == NodeIdError(id) = None

_generate_token_hash(t) ==
    Sha256Hex(t.node_id \o ":" \o Fmt(t.issuer_token_hash) \o ":" \o Fmt(t.issuer_id)
              \o ":" \o t.timestamp \o ":" \o t.token_id \o ":" \o t.token_data)

\* SecureToken.__init__ for an identifier that passed the checks
SecureToken(node_id, issuer_token_hash, issuer_id, token_data, master_id, hierarchy_level, now, uuid) ==
    LET t0 == [node_id |-> node_id,
               issuer_token_hash |-> issuer_token_hash,
               issuer_id |-> issuer_id,
               timestamp |-> now,
               token_id |-> uuid,
               token_data |-> IF token_data = None \/ token_data = ""
                              THEN "token_for_" \o node_id ELSE token_data,
               master_id |-> IF master_id # None /\ master_id # "" THEN master_id
                             ELSE IF issuer_token_hash = None THEN node_id ELSE None,
               hierarchy_level |-> hierarchy_level,
               master_signature |-> None,
               issuer_signature |-> None,
               delegation_proof |-> None,
               merkle_proof |-> None,
               verification_paths |-> {"chain"}]
    IN  [f \in DOMAIN t0 \cup {"token_hash"} |->
            IF f = "token_hash" THEN _generate_token_hash(t0) ELSE t0[f]]

\* RSA-PSS: private_key.sign(content) and public_key.verify(signature, content)
Sign(key, content) == "sig(" \o key \o "|" \o content \o ")"
SigVerifies(key, signature, content) == signature = Sign(key, content)

SignContent(t, signer_id) ==
    t.node_id \o ":" \o t.token_hash \o ":" \o Fmt(signer_id) \o ":" \o t.timestamp

\* variant: the signed content names the token's own node instead of the master
add_master_signature_own_id(t, master_private_key, master_id) ==
    IF master_private_key = None THEN t
    ELSE [t EXCEPT !.master_signature = Sign(master_private_key, SignContent(t, t.node_id)),
                   !.master_id = master_id,
                   !.verification_paths = @ \cup {"master-direct"}]

add_master_signature(t, master_private_key, master_id) ==
    IF master_private_key = None THEN t
    ELSE [t EXCEPT !.master_signature = Sign(master_private_key, SignContent(t, master_id)),
                   !.master_id = master_id,
                   !.verification_paths = @ \cup {"master-direct"}]

\* variant: the signature is attached and the path is not recorded
add_issuer_signature_no_path(t, issuer_private_key, issuer_id) ==
    IF issuer_private_key = None \/ issuer_id = None \/ issuer_id = "" THEN t
    ELSE [t EXCEPT !.issuer_signature = Sign(issuer_private_key, SignContent(t, issuer_id))]

add_issuer_signature(t, issuer_private_key, issuer_id) ==
    IF issuer_private_key = None \/ issuer_id = None \/ issuer_id = "" THEN t
    ELSE [t EXCEPT !.issuer_signature = Sign(issuer_private_key, SignContent(t, issuer_id)),
                   !.verification_paths = @ \cup {"issuer-direct"}]

\* variant: a signature that is present is accepted whatever it signs
verify_master_signature_any_signature(t, master_public_key) ==
    IF \/ t.master_signature = None \/ t.master_signature = ""
       \/ master_public_key = None
       \/ t.master_id = None \/ t.master_id = ""
    THEN FALSE
    ELSE TRUE

verify_master_signature(t, master_public_key) ==
    IF \/ t.master_signature = None \/ t.master_signature = ""
       \/ master_public_key = None
       \/ t.master_id = None \/ t.master_id = ""
    THEN FALSE
    ELSE SigVerifies(master_public_key, t.master_signature, SignContent(t, t.master_id))

verify_issuer_signature(t, issuer_public_key, issuer_id) ==
    IF \/ t.issuer_signature = None \/ t.issuer_signature = ""
       \/ issuer_public_key = None
    THEN FALSE
    ELSE SigVerifies(issuer_public_key, t.issuer_signature, SignContent(t, issuer_id))

\* list(a_set) and set(a_list)
ListOf(S) == CHOOSE l \in [1..Cardinality(S) -> S] : {l[i] : i \in 1..Cardinality(S)} = S
SetOf(l) == {l[i] : i \in 1..Len(l)}

\* SecureToken.to_dict: the JSON object of a token file
to_dict(t) ==
    [node_id |-> t.node_id,
     issuer_token_hash |-> t.issuer_token_hash,
     issuer_id |-> t.issuer_id,
     timestamp |-> t.timestamp,
     token_id |-> t.token_id,
     token_data |-> t.token_data,
     token_hash |-> t.token_hash,
     master_id |-> t.master_id,
     hierarchy_level |-> t.hierarchy_level,
     master_signature |-> t.master_signature,
     issuer_signature |-> t.issuer_signature,
     delegation_proof |-> t.delegation_proof,
     merkle_proof |-> t.merkle_proof,
     verification_paths |-> ListOf(t.verification_paths)]

\* data[key] raises KeyError for a key the object lacks; data.get(key, default)
RequiredKeys == {"node_id", "issuer_token_hash", "issuer_id", "timestamp",
                 "token_id", "token_data", "token_hash"}
Get(data, key, default) == IF key \in DOMAIN data THEN data[key] ELSE default

\* variant: the fingerprint is computed again from the fields read
from_dict_recomputes_hash(data) ==
    [node_id |-> data.node_id,
     issuer_token_hash |-> data.issuer_token_hash,
     issuer_id |-> data.issuer_id,
     timestamp |-> data.timestamp,
     token_id |-> data.token_id,
     token_data |-> data.token_data,
     token_hash |-> _generate_token_hash(data),
     master_id |-> Get(data, "master_id",
                       IF data.issuer_token_hash = None THEN data.node_id ELSE None),
     hierarchy_level |-> Get(data, "hierarchy_level", 0),
     master_signature |-> Get(data, "master_signature", None),
     issuer_signature |-> Get(data, "issuer_signature", None),
     delegation_proof |-> Get(data, "delegation_proof", None),
     merkle_proof |-> Get(data, "merkle_proof", None),
     verification_paths |-> SetOf(Get(data, "verification_paths", <<"chain">>))]

\* SecureToken.from_dict for an object that has the required keys
from_dict(data) ==
    [node_id |-> data.node_id,
     issuer_token_hash |-> data.issuer_token_hash,
     issuer_id |-> data.issuer_id,
     timestamp |-> data.timestamp,
     token_id |-> data.token_id,
     token_data |-> data.token_data,
     token_hash |-> data.token_hash,
     master_id |-> Get(data, "master_id",
                       IF data.issuer_token_hash = None THEN data.node_id ELSE None),
     hierarchy_level |-> Get(data, "hierarchy_level", 0),
     master_signature |-> Get(data, "master_signature", None),
     issuer_signature |-> Get(data, "issuer_signature", None),
     delegation_proof |-> Get(data, "delegation_proof", None),
     merkle_proof |-> Get(data, "merkle_proof", None),
     verification_paths |-> SetOf(Get(data, "verification_paths", <<"chain">>))]

\* --------------------------------------------------------------- state
\* net   the PKITokenNetwork instance: heap of SecureToken objects (a token
\*       is referred to by its index), tokens (node_id -> object),
\*       master_token (object or 0), the master key pair, node_keys
\* disk  the storage directory: token files by file-name stem (the name
\*       without "_token.json"), key files, the other files in it,
\*       and the order in which os.listdir returns the token files once a
\*       listing has shown it (<<>> after a write to the directory: the
\*       order is arbitrary, and it stays the same while nothing is written)
\* rng   how many uuids and key pairs have been drawn so far
\* last  the call that was made last and what it returned or raised
\* edits how many times the token objects or files were edited from outside
\* peer  a second PKITokenNetwork instance on the same directory (a second
\*       process), NoInstance until one is constructed; the calls are made
\*       on net
VARIABLES net, disk, rng, last, edits, peer
vars == <<net, disk, rng, last, edits, peer>>

EmptyFn == [x \in {} |-> None]

NewNet == [heap |-> <<>>, tokens |-> EmptyFn, master_token |-> 0,
           master_private_key |-> None, master_public_key |-> None,
           node_keys |-> EmptyFn]

NoInstance == <<>>

EmptyDisk == [tokens |-> EmptyFn, keys |-> EmptyFn, others |-> {}, order |-> <<>>]

World(n, d, r) == [net |-> n, disk |-> d, rng |-> r]

Outcome(op, a1, a2, ok, err, trace) ==
    [op |-> op, a1 |-> a1, a2 |-> a2, ok |-> ok, err |-> err, trace |-> trace]

\* the token object the map holds for a node
Tok(n, id) == n.heap[n.tokens[id]]
HasToken(n, id) == id \in DOMAIN n.tokens
MasterTok(n) == n.heap[n.master_token]

\* ------------------------------------------------------------ key store
_save_key_pair(w, name, key) ==
    [w EXCEPT !.disk.keys = (name :> key) @@ @]

_ensure_master_keys(w) ==
    IF w.net.master_private_key = None \/ w.net.master_public_key = None
    THEN LET key == KeyName(w.rng.key + 1)
             w1 == [w EXCEPT !.net.master_private_key = key,
                             !.net.master_public_key = key,
                             !.rng.key = @ + 1]
         IN  _save_key_pair(w1, "master", key)
    ELSE w

_ensure_node_keys(w, node_id) ==
    IF node_id \notin DOMAIN w.net.node_keys
    THEN LET key == KeyName(w.rng.key + 1)
             w1 == [w EXCEPT !.net.node_keys = (node_id :> key) @@ @,
                             !.rng.key = @ + 1]
         IN  _save_key_pair(w1, node_id, key)
    ELSE w

\* variant: the token is kept in memory and no file is written
_save_token_nothing(w, t) == w

_save_token(w, t) ==
    [w EXCEPT !.disk.tokens = (t.node_id :> to_dict(t)) @@ @,
              !.disk.order = <<>>]

\* ------------------------------------------------------------- issuance
ErrMasterExists == "Master token already exists"
ErrHasToken == "already has a token"
ErrCreateFailed == "Failed to create master token"
ErrNoMaster == "No master token exists"
ErrIssuerNotFound == "Issuer node not found"
ErrSame == "Issuer and new node cannot be the same"
ErrIssueFailed == "Failed to issue token"

Raise(w, err) == [w |-> w, ok |-> FALSE, err |-> err]
Return(w) == [w |-> w, ok |-> TRUE, err |-> None]

\* create_master_token after its two checks: the try block
create_master_token_try(w, master_node_id, now) ==
    LET w1 == _ensure_master_keys(w)
    IN  IF ~ValidNodeId(master_node_id) THEN Raise(w1, ErrCreateFailed)
        ELSE LET t0 == SecureToken(master_node_id, None, None, None,
                                   master_node_id, 0, now, Uuid4(w1.rng.uuid + 1))
                 t1 == add_master_signature(t0, w1.net.master_private_key,
                                            master_node_id)
                 obj == Len(w1.net.heap) + 1
                 w2 == [w1 EXCEPT !.rng.uuid = @ + 1,
                                  !.net.heap = Append(@, t1),
                                  !.net.master_token = obj,
                                  !.net.tokens = (master_node_id :> obj) @@ @]
             IN  Return(_save_token(w2, t1))

\* variant: the token map is tested before the registered master
create_master_token_node_first(w, master_node_id, now) ==
    IF HasToken(w.net, master_node_id) THEN Raise(w, ErrHasToken)
    ELSE IF w.net.master_token # 0 THEN Raise(w, ErrMasterExists)
    ELSE create_master_token_try(w, master_node_id, now)

\* variant: the registered master is not tested
create_master_token_any_number(w, master_node_id, now) ==
    IF HasToken(w.net, master_node_id) THEN Raise(w, ErrHasToken)
    ELSE create_master_token_try(w, master_node_id, now)

create_master_token(w, master_node_id, now) ==
    IF w.net.master_token # 0 THEN Raise(w, ErrMasterExists)
    ELSE IF HasToken(w.net, master_node_id) THEN Raise(w, ErrHasToken)
    ELSE create_master_token_try(w, master_node_id, now)

\* variant: issuance fails when the master private key is not loaded
issue_token_try_needs_master_key(w, issuer_node_id, new_node_id, token_data, now) ==
    IF ~ValidNodeId(new_node_id) \/ w.net.master_private_key = None
    THEN Raise(w, ErrIssueFailed)
    ELSE LET issuer_token == Tok(w.net, issuer_node_id)
             hierarchy_level == issuer_token.hierarchy_level + 1
             t0 == SecureToken(new_node_id, issuer_token.token_hash, issuer_node_id,
                               token_data, MasterTok(w.net).node_id, hierarchy_level,
                               now, Uuid4(w.rng.uuid + 1))
             t1 == add_master_signature(t0, w.net.master_private_key,
                                        MasterTok(w.net).node_id)
             w1 == _ensure_node_keys([w EXCEPT !.rng.uuid = @ + 1], issuer_node_id)
             t2 == IF issuer_node_id \in DOMAIN w1.net.node_keys
                   THEN add_issuer_signature(t1, w1.net.node_keys[issuer_node_id],
                                             issuer_node_id)
                   ELSE t1
             w2 == _ensure_node_keys(w1, new_node_id)
             obj == Len(w2.net.heap) + 1
             w3 == [w2 EXCEPT !.net.heap = Append(@, t2),
                              !.net.tokens = (new_node_id :> obj) @@ @]
         IN  Return(_save_token(w3, t2))

\* variant: level and hash are taken from the master token, not the issuer's
issue_token_try_level_of_master(w, issuer_node_id, new_node_id, token_data, now) ==
    IF ~ValidNodeId(new_node_id) THEN Raise(w, ErrIssueFailed)
    ELSE LET issuer_token == Tok(w.net, issuer_node_id)
             hierarchy_level == MasterTok(w.net).hierarchy_level + 1
             t0 == SecureToken(new_node_id, MasterTok(w.net).token_hash, issuer_node_id,
                               token_data, MasterTok(w.net).node_id, hierarchy_level,
                               now, Uuid4(w.rng.uuid + 1))
             t1 == IF w.net.master_private_key # None
                   THEN add_master_signature(t0, w.net.master_private_key,
                                             MasterTok(w.net).node_id)
                   ELSE t0
             w1 == _ensure_node_keys([w EXCEPT !.rng.uuid = @ + 1], issuer_node_id)
             t2 == IF issuer_node_id \in DOMAIN w1.net.node_keys
                   THEN add_issuer_signature(t1, w1.net.node_keys[issuer_node_id],
                                             issuer_node_id)
                   ELSE t1
             w2 == _ensure_node_keys(w1, new_node_id)
             obj == Len(w2.net.heap) + 1
             w3 == [w2 EXCEPT !.net.heap = Append(@, t2),
                              !.net.tokens = (new_node_id :> obj) @@ @]
         IN  Return(_save_token(w3, t2))

\* issue_token after its four checks: the try block
\* variant: the issuer is taken for the master of the new token
issue_token_try_issuer_as_master(w, issuer_node_id, new_node_id, token_data, now) ==
    IF ~ValidNodeId(new_node_id) THEN Raise(w, ErrIssueFailed)
    ELSE LET issuer_token == Tok(w.net, issuer_node_id)
             hierarchy_level == issuer_token.hierarchy_level + 1
             t0 == SecureToken(new_node_id, issuer_token.token_hash, issuer_node_id,
                               token_data, issuer_node_id, hierarchy_level,
                               now, Uuid4(w.rng.uuid + 1))
             t1 == IF w.net.master_private_key # None
                   THEN add_master_signature(t0, w.net.master_private_key,
                                             issuer_node_id)
                   ELSE t0
             w1 == _ensure_node_keys([w EXCEPT !.rng.uuid = @ + 1], issuer_node_id)
             t2 == IF issuer_node_id \in DOMAIN w1.net.node_keys
                   THEN add_issuer_signature(t1, w1.net.node_keys[issuer_node_id],
                                             issuer_node_id)
                   ELSE t1
             w2 == _ensure_node_keys(w1, new_node_id)
             obj == Len(w2.net.heap) + 1
             w3 == [w2 EXCEPT !.net.heap = Append(@, t2),
                              !.net.tokens = (new_node_id :> obj) @@ @]
         IN  Return(_save_token(w3, t2))

\* variant: the issuer's signature is also put on the issuer's own token
issue_token_try_signs_issuer_token(w, issuer_node_id, new_node_id, token_data, now) ==
    IF ~ValidNodeId(new_node_id) THEN Raise(w, ErrIssueFailed)
    ELSE LET issuer_token == Tok(w.net, issuer_node_id)
             hierarchy_level == issuer_token.hierarchy_level + 1
             t0 == SecureToken(new_node_id, issuer_token.token_hash, issuer_node_id,
                               token_data, MasterTok(w.net).node_id, hierarchy_level,
                               now, Uuid4(w.rng.uuid + 1))
             t1 == IF w.net.master_private_key # None
                   THEN add_master_signature(t0, w.net.master_private_key,
                                             MasterTok(w.net).node_id)
                   ELSE t0
             w1 == _ensure_node_keys([w EXCEPT !.rng.uuid = @ + 1], issuer_node_id)
             t2 == IF issuer_node_id \in DOMAIN w1.net.node_keys
                   THEN add_issuer_signature(t1, w1.net.node_keys[issuer_node_id],
                                             issuer_node_id)
                   ELSE t1
             w2 == _ensure_node_keys(w1, new_node_id)
             obj == Len(w2.net.heap) + 1
             signed == [w2.net.heap EXCEPT ![w2.net.tokens[issuer_node_id]] =
                           add_issuer_signature(@, w1.net.node_keys[issuer_node_id],
                                                issuer_node_id)]
             w3 == [w2 EXCEPT !.net.heap = Append(signed, t2),
                              !.net.tokens = (new_node_id :> obj) @@ @]
         IN  Return(_save_token(w3, t2))

\* variant: the new token names the root as its issuer
issue_token_try_issuer_is_root(w, issuer_node_id, new_node_id, token_data, now) ==
    IF ~ValidNodeId(new_node_id) THEN Raise(w, ErrIssueFailed)
    ELSE LET issuer_token == Tok(w.net, issuer_node_id)
             hierarchy_level == issuer_token.hierarchy_level + 1
             t0 == SecureToken(new_node_id, issuer_token.token_hash,
                               MasterTok(w.net).node_id,
                               token_data, MasterTok(w.net).node_id, hierarchy_level,
                               now, Uuid4(w.rng.uuid + 1))
             t1 == IF w.net.master_private_key # None
                   THEN add_master_signature(t0, w.net.master_private_key,
                                             MasterTok(w.net).node_id)
                   ELSE t0
             w1 == _ensure_node_keys([w EXCEPT !.rng.uuid = @ + 1], issuer_node_id)
             t2 == IF issuer_node_id \in DOMAIN w1.net.node_keys
                   THEN add_issuer_signature(t1, w1.net.node_keys[issuer_node_id],
                                             issuer_node_id)
                   ELSE t1
             w2 == _ensure_node_keys(w1, new_node_id)
             obj == Len(w2.net.heap) + 1
             w3 == [w2 EXCEPT !.net.heap = Append(@, t2),
                              !.net.tokens = (new_node_id :> obj) @@ @]
         IN  Return(_save_token(w3, t2))

issue_token_try(w, issuer_node_id, new_node_id, token_data, now) ==
    IF ~ValidNodeId(new_node_id) THEN Raise(w, ErrIssueFailed)
    ELSE LET issuer_token == Tok(w.net, issuer_node_id)
             hierarchy_level == issuer_token.hierarchy_level + 1
             t0 == SecureToken(new_node_id, issuer_token.token_hash, issuer_node_id,
                               token_data, MasterTok(w.net).node_id, hierarchy_level,
                               now, Uuid4(w.rng.uuid + 1))
             t1 == IF w.net.master_private_key # None
                   THEN add_master_signature(t0, w.net.master_private_key,
                                             MasterTok(w.net).node_id)
                   ELSE t0
             w1 == _ensure_node_keys([w EXCEPT !.rng.uuid = @ + 1], issuer_node_id)
             t2 == IF issuer_node_id \in DOMAIN w1.net.node_keys
                   THEN add_issuer_signature(t1, w1.net.node_keys[issuer_node_id],
                                             issuer_node_id)
                   ELSE t1
             w2 == _ensure_node_keys(w1, new_node_id)
             obj == Len(w2.net.heap) + 1
             w3 == [w2 EXCEPT !.net.heap = Append(@, t2),
                              !.net.tokens = (new_node_id :> obj) @@ @]
         IN  Return(_save_token(w3, t2))

\* variant: the four tests in another order
issue_token_duplicate_first(w, issuer_node_id, new_node_id, token_data, now) ==
    IF ~HasToken(w.net, issuer_node_id) THEN Raise(w, ErrIssuerNotFound)
    ELSE IF w.net.master_token = 0 THEN Raise(w, ErrNoMaster)
    ELSE IF HasToken(w.net, new_node_id) THEN Raise(w, ErrHasToken)
    ELSE IF issuer_node_id = new_node_id THEN Raise(w, ErrSame)
    ELSE issue_token_try(w, issuer_node_id, new_node_id, token_data, now)

\* variant: the issuer's key pair is made as soon as the issuer is found
\* variant: a node that has a token is issued another one
issue_token_again(w, issuer_node_id, new_node_id, token_data, now) ==
    IF w.net.master_token = 0 THEN Raise(w, ErrNoMaster)
    ELSE IF ~HasToken(w.net, issuer_node_id) THEN Raise(w, ErrIssuerNotFound)
    ELSE IF issuer_node_id = new_node_id THEN Raise(w, ErrSame)
    ELSE issue_token_try(w, issuer_node_id, new_node_id, token_data, now)

issue_token_issuer_keys_first(w, issuer_node_id, new_node_id, token_data, now) ==
    IF w.net.master_token = 0 THEN Raise(w, ErrNoMaster)
    ELSE IF ~HasToken(w.net, issuer_node_id) THEN Raise(w, ErrIssuerNotFound)
    ELSE IF issuer_node_id = new_node_id
    THEN Raise(_ensure_node_keys(w, issuer_node_id), ErrSame)
    ELSE IF HasToken(w.net, new_node_id)
    THEN Raise(_ensure_node_keys(w, issuer_node_id), ErrHasToken)
    ELSE issue_token_try(_ensure_node_keys(w, issuer_node_id), issuer_node_id,
                         new_node_id, token_data, now)

issue_token(w, issuer_node_id, new_node_id, token_data, now) ==
    IF w.net.master_token = 0 THEN Raise(w, ErrNoMaster)
    ELSE IF ~HasToken(w.net, issuer_node_id) THEN Raise(w, ErrIssuerNotFound)
    ELSE IF issuer_node_id = new_node_id THEN Raise(w, ErrSame)
    ELSE IF HasToken(w.net, new_node_id) THEN Raise(w, ErrHasToken)
    ELSE issue_token_try(w, issuer_node_id, new_node_id, token_data, now)

\* --------------------------------------------------------- verification
\* one entry of a verification trace: what it says and the node it names
\* (the 16 hash characters shown in a link entry are left out)
Entry(kind, node) == [kind |-> kind, node |-> node]
Link == "link"
MsgTokenNotFound == "Token not found"
MsgInvalidMaster == "Invalid master token"
MsgIssuerNotFound == "Issuer not found"
MsgHashChainBroken == "Hash chain broken - issuer token hash mismatch"
MsgMasterSigUnavailable == "Master signature verification not available for this token"
MsgNoMasterPublicKey == "Master public key not available"
MsgMasterSigVerified == "Master signature verified"
MsgMasterSigFailed == "Master signature verification failed"

\* a call's result; returns = FALSE when the call never returns
Verdict(valid, trace) == [valid |-> valid, trace |-> trace, returns |-> TRUE]
Diverges(trace) == [valid |-> FALSE, trace |-> trace, returns |-> FALSE]

\* the while loop of verify_token, one iteration per call; the walk is a
\* function of the current object alone, so once it has made more
\* iterations than there are map entries it repeats for ever
\* variants of the loop: the issuer's hash compared with the token's own hash;
\* no hash comparison; a missing issuer taken for the end of a valid chain
RECURSIVE ChainLoop_own_hash(_, _, _, _)
ChainLoop_own_hash(n, current, chain, fuel) ==
    LET current_token == n.heap[current]
        chain1 == Append(chain, Entry(Link, current_token.node_id))
    IN  IF current_token.issuer_token_hash = None
        THEN IF current = n.master_token
             THEN Verdict(TRUE, chain1)
             ELSE Verdict(FALSE, Append(chain1, Entry(MsgInvalidMaster, None)))
        ELSE IF ~HasToken(n, current_token.issuer_id)
        THEN Verdict(FALSE, Append(chain1, Entry(MsgIssuerNotFound, current_token.issuer_id)))
        ELSE IF Tok(n, current_token.issuer_id).token_hash # current_token.token_hash
        THEN Verdict(FALSE, Append(chain1, Entry(MsgHashChainBroken, None)))
        ELSE IF fuel = 0 THEN Diverges(chain1)
        ELSE ChainLoop_own_hash(n, n.tokens[current_token.issuer_id], chain1, fuel - 1)

RECURSIVE ChainLoop_no_hash_check(_, _, _, _)
ChainLoop_no_hash_check(n, current, chain, fuel) ==
    LET current_token == n.heap[current]
        chain1 == Append(chain, Entry(Link, current_token.node_id))
    IN  IF current_token.issuer_token_hash = None
        THEN IF current = n.master_token
             THEN Verdict(TRUE, chain1)
             ELSE Verdict(FALSE, Append(chain1, Entry(MsgInvalidMaster, None)))
        ELSE IF ~HasToken(n, current_token.issuer_id)
        THEN Verdict(FALSE, Append(chain1, Entry(MsgIssuerNotFound, current_token.issuer_id)))
        ELSE IF FALSE
        THEN Verdict(FALSE, Append(chain1, Entry(MsgHashChainBroken, None)))
        ELSE IF fuel = 0 THEN Diverges(chain1)
        ELSE ChainLoop_no_hash_check(n, n.tokens[current_token.issuer_id], chain1, fuel - 1)

RECURSIVE ChainLoop_missing_issuer_ends(_, _, _, _)
ChainLoop_missing_issuer_ends(n, current, chain, fuel) ==
    LET current_token == n.heap[current]
        chain1 == Append(chain, Entry(Link, current_token.node_id))
    IN  IF current_token.issuer_token_hash = None
        THEN IF current = n.master_token
             THEN Verdict(TRUE, chain1)
             ELSE Verdict(FALSE, Append(chain1, Entry(MsgInvalidMaster, None)))
        ELSE IF ~HasToken(n, current_token.issuer_id)
        THEN Verdict(TRUE, chain1)
        ELSE IF Tok(n, current_token.issuer_id).token_hash # current_token.issuer_token_hash
        THEN Verdict(FALSE, Append(chain1, Entry(MsgHashChainBroken, None)))
        ELSE IF fuel = 0 THEN Diverges(chain1)
        ELSE ChainLoop_missing_issuer_ends(n, n.tokens[current_token.issuer_id], chain1, fuel - 1)

\* variant: a hash mismatch returns the visited chain and no entry for it
RECURSIVE ChainLoop_bare_failure(_, _, _, _)
ChainLoop_bare_failure(n, current, chain, fuel) ==
    LET current_token == n.heap[current]
        chain1 == Append(chain, Entry(Link, current_token.node_id))
    IN  IF current_token.issuer_token_hash = None
        THEN IF current = n.master_token
             THEN Verdict(TRUE, chain1)
             ELSE Verdict(FALSE, Append(chain1, Entry(MsgInvalidMaster, None)))
        ELSE IF ~HasToken(n, current_token.issuer_id)
        THEN Verdict(FALSE, Append(chain1, Entry(MsgIssuerNotFound, current_token.issuer_id)))
        ELSE IF Tok(n, current_token.issuer_id).token_hash # current_token.issuer_token_hash
        THEN Verdict(FALSE, chain1)
        ELSE IF fuel = 0 THEN Diverges(chain1)
        ELSE ChainLoop_bare_failure(n, n.tokens[current_token.issuer_id], chain1, fuel - 1)

\* variant: the walk does not move on to the issuer's token
RECURSIVE ChainLoop_no_advance(_, _, _, _)
ChainLoop_no_advance(n, current, chain, fuel) ==
    LET current_token == n.heap[current]
        chain1 == Append(chain, Entry(Link, current_token.node_id))
    IN  IF current_token.issuer_token_hash = None
        THEN IF current = n.master_token
             THEN Verdict(TRUE, chain1)
             ELSE Verdict(FALSE, Append(chain1, Entry(MsgInvalidMaster, None)))
        ELSE IF ~HasToken(n, current_token.issuer_id)
        THEN Verdict(FALSE, Append(chain1, Entry(MsgIssuerNotFound, current_token.issuer_id)))
        ELSE IF Tok(n, current_token.issuer_id).token_hash # current_token.issuer_token_hash
        THEN Verdict(FALSE, Append(chain1, Entry(MsgHashChainBroken, None)))
        ELSE IF fuel = 0 THEN Diverges(chain1)
        ELSE ChainLoop_no_advance(n, current, chain1, fuel - 1)

\* variant: any token without issuer_token_hash ends a valid chain
RECURSIVE ChainLoop_any_root(_, _, _, _)
ChainLoop_any_root(n, current, chain, fuel) ==
    LET current_token == n.heap[current]
        chain1 == Append(chain, Entry(Link, current_token.node_id))
    IN  IF current_token.issuer_token_hash = None
        THEN Verdict(TRUE, chain1)
        ELSE IF ~HasToken(n, current_token.issuer_id)
        THEN Verdict(FALSE, Append(chain1, Entry(MsgIssuerNotFound, current_token.issuer_id)))
        ELSE IF Tok(n, current_token.issuer_id).token_hash # current_token.issuer_token_hash
        THEN Verdict(FALSE, Append(chain1, Entry(MsgHashChainBroken, None)))
        ELSE IF fuel = 0 THEN Diverges(chain1)
        ELSE ChainLoop_any_root(n, n.tokens[current_token.issuer_id], chain1, fuel - 1)

RECURSIVE ChainLoop(_, _, _, _)
\* variant: a token without issuer hash is accepted as the root when its
\* hierarchy level is 0
RECURSIVE ChainLoop_root_by_level(_, _, _, _)
ChainLoop_root_by_level(n, current, chain, fuel) ==
    LET current_token == n.heap[current]
        chain1 == Append(chain, Entry(Link, current_token.node_id))
    IN  IF current_token.issuer_token_hash = None
        THEN IF current_token.hierarchy_level = 0
             THEN Verdict(TRUE, chain1)
             ELSE Verdict(FALSE, Append(chain1, Entry(MsgInvalidMaster, None)))
        ELSE IF ~HasToken(n, current_token.issuer_id)
        THEN Verdict(FALSE, Append(chain1, Entry(MsgIssuerNotFound, current_token.issuer_id)))
        ELSE IF Tok(n, current_token.issuer_id).token_hash # current_token.issuer_token_hash
        THEN Verdict(FALSE, Append(chain1, Entry(MsgHashChainBroken, None)))
        ELSE IF fuel = 0 THEN Diverges(chain1)
        ELSE ChainLoop_root_by_level(n, n.tokens[current_token.issuer_id], chain1, fuel - 1)

ChainLoop(n, current, chain, fuel) ==
    LET current_token == n.heap[current]
        chain1 == Append(chain, Entry(Link, current_token.node_id))
    IN  IF current_token.issuer_token_hash = None
        THEN IF current = n.master_token
             THEN Verdict(TRUE, chain1)
             ELSE Verdict(FALSE, Append(chain1, Entry(MsgInvalidMaster, None)))
        ELSE IF ~HasToken(n, current_token.issuer_id)
        THEN Verdict(FALSE, Append(chain1, Entry(MsgIssuerNotFound, current_token.issuer_id)))
        ELSE IF Tok(n, current_token.issuer_id).token_hash # current_token.issuer_token_hash
        THEN Verdict(FALSE, Append(chain1, Entry(MsgHashChainBroken, None)))
        ELSE IF fuel = 0 THEN Diverges(chain1)
        ELSE ChainLoop(n, n.tokens[current_token.issuer_id], chain1, fuel - 1)

verify_token(n, node_id) ==
    IF ~HasToken(n, node_id)
    THEN Verdict(FALSE, <<Entry(MsgTokenNotFound, node_id)>>)
    ELSE ChainLoop(n, n.tokens[node_id], <<>>, Cardinality(DOMAIN n.tokens))

\* variant: the issuer's token must be in the store
verify_token_direct_master_needs_issuer(n, node_id) ==
    IF ~HasToken(n, node_id)
    THEN Verdict(FALSE, <<Entry(MsgTokenNotFound, node_id)>>)
    ELSE IF "master-direct" \notin Tok(n, node_id).verification_paths
    THEN Verdict(FALSE, <<Entry(MsgMasterSigUnavailable, None)>>)
    ELSE IF n.master_public_key = None
    THEN Verdict(FALSE, <<Entry(MsgNoMasterPublicKey, None)>>)
    ELSE IF /\ verify_master_signature(Tok(n, node_id), n.master_public_key)
            /\ (Tok(n, node_id).issuer_id = None \/ HasToken(n, Tok(n, node_id).issuer_id))
    THEN Verdict(TRUE, <<Entry(MsgMasterSigVerified, node_id)>>)
    ELSE Verdict(FALSE, <<Entry(MsgMasterSigFailed, None)>>)

verify_token_direct_master(n, node_id) ==
    IF ~HasToken(n, node_id)
    THEN Verdict(FALSE, <<Entry(MsgTokenNotFound, node_id)>>)
    ELSE IF "master-direct" \notin Tok(n, node_id).verification_paths
    THEN Verdict(FALSE, <<Entry(MsgMasterSigUnavailable, None)>>)
    ELSE IF n.master_public_key = None
    THEN Verdict(FALSE, <<Entry(MsgNoMasterPublicKey, None)>>)
    ELSE IF verify_master_signature(Tok(n, node_id), n.master_public_key)
    THEN Verdict(TRUE, <<Entry(MsgMasterSigVerified, node_id)>>)
    ELSE Verdict(FALSE, <<Entry(MsgMasterSigFailed, None)>>)

\* ----- verify_token_as_issuer
MsgIssuerNodeNotFound == "Issuer node not found"
MsgDirectSigVerified == "Direct issuer signature verified"
MsgDirectSigFailed == "Direct issuer signature verification failed"
MsgHashChainVerified == "Hash chain verified"
MsgHashChainFailed == "Hash chain verification failed"
MsgIssuerFound == "(issuer found)"
MsgMissingIssuer == "Missing issuer"
MsgNotInChain == "not found in chain"
Visited == "visited"

_verify_direct_issuance(n, issuer_node_id, descendant_node_id) ==
    IF Tok(n, descendant_node_id).issuer_token_hash = Tok(n, issuer_node_id).token_hash
    THEN Verdict(TRUE, <<Entry(MsgHashChainVerified, descendant_node_id)>>)
    ELSE Verdict(FALSE, <<Entry(MsgHashChainFailed, None)>>)

\* the while loop of _verify_indirect_issuance, one iteration per call; like
\* the loop of verify_token it repeats for ever once it has made more
\* iterations than there are map entries
\* variant: a walk that ends at a token without issuer accepts
RECURSIVE IndirectLoop_end_accepts(_, _, _, _, _)
IndirectLoop_end_accepts(n, issuer_node_id, current, chain, fuel) ==
    LET current_token == n.heap[current]
        chain1 == Append(chain, Entry(Visited, current_token.node_id))
    IN  IF current_token.issuer_id = None \/ current_token.issuer_id = ""
        THEN Verdict(TRUE, Append(chain, Entry(MsgIssuerFound, issuer_node_id)))
        ELSE IF current_token.issuer_id = issuer_node_id
        THEN Verdict(TRUE, Append(chain1, Entry(MsgIssuerFound, issuer_node_id)))
        ELSE IF ~HasToken(n, current_token.issuer_id)
        THEN Verdict(FALSE, Append(chain1, Entry(MsgMissingIssuer, current_token.issuer_id)))
        ELSE IF fuel = 0 THEN Diverges(chain1)
        ELSE IndirectLoop_end_accepts(n, issuer_node_id,
                                      n.tokens[current_token.issuer_id],
                                      chain1, fuel - 1)

RECURSIVE IndirectLoop(_, _, _, _, _)
IndirectLoop(n, issuer_node_id, current, chain, fuel) ==
    LET current_token == n.heap[current]
        chain1 == Append(chain, Entry(Visited, current_token.node_id))
    IN  IF current_token.issuer_id = None \/ current_token.issuer_id = ""
        THEN Verdict(FALSE, Append(chain, Entry(MsgNotInChain, issuer_node_id)))
        ELSE IF current_token.issuer_id = issuer_node_id
        THEN Verdict(TRUE, Append(chain1, Entry(MsgIssuerFound, issuer_node_id)))
        ELSE IF ~HasToken(n, current_token.issuer_id)
        THEN Verdict(FALSE, Append(chain1, Entry(MsgMissingIssuer, current_token.issuer_id)))
        ELSE IF fuel = 0 THEN Diverges(chain1)
        ELSE IndirectLoop(n, issuer_node_id, n.tokens[current_token.issuer_id],
                          chain1, fuel - 1)

_verify_indirect_issuance(n, issuer_node_id, descendant_node_id) ==
    IndirectLoop(n, issuer_node_id, n.tokens[descendant_node_id], <<>>,
                 Cardinality(DOMAIN n.tokens))

\* variant: only the immediate issuer is recognised
verify_token_as_issuer_direct_only(n, issuer_node_id, descendant_node_id) ==
    IF ~HasToken(n, descendant_node_id)
    THEN Verdict(FALSE, <<Entry(MsgTokenNotFound, descendant_node_id)>>)
    ELSE IF ~HasToken(n, issuer_node_id)
    THEN Verdict(FALSE, <<Entry(MsgIssuerNodeNotFound, issuer_node_id)>>)
    ELSE LET descendant_token == Tok(n, descendant_node_id)
         IN  IF descendant_token.issuer_id = issuer_node_id
             THEN IF /\ issuer_node_id \in DOMAIN n.node_keys
                     /\ "issuer-direct" \in descendant_token.verification_paths
                  THEN IF verify_issuer_signature(descendant_token,
                                                  n.node_keys[issuer_node_id],
                                                  issuer_node_id)
                       THEN Verdict(TRUE, <<Entry(MsgDirectSigVerified, descendant_node_id)>>)
                       ELSE Verdict(FALSE, <<Entry(MsgDirectSigFailed, None)>>)
                  ELSE _verify_direct_issuance(n, issuer_node_id, descendant_node_id)
             ELSE Verdict(FALSE, <<Entry(MsgNotInChain, issuer_node_id)>>)

\* variant: a failed issuer signature falls back to the hash comparison
verify_token_as_issuer_hash_after_signature(n, issuer_node_id, descendant_node_id) ==
    IF ~HasToken(n, descendant_node_id)
    THEN Verdict(FALSE, <<Entry(MsgTokenNotFound, descendant_node_id)>>)
    ELSE IF ~HasToken(n, issuer_node_id)
    THEN Verdict(FALSE, <<Entry(MsgIssuerNodeNotFound, issuer_node_id)>>)
    ELSE LET descendant_token == Tok(n, descendant_node_id)
         IN  IF descendant_token.issuer_id = issuer_node_id
             THEN IF /\ issuer_node_id \in DOMAIN n.node_keys
                     /\ "issuer-direct" \in descendant_token.verification_paths
                     /\ verify_issuer_signature(descendant_token,
                                                n.node_keys[issuer_node_id],
                                                issuer_node_id)
                  THEN Verdict(TRUE, <<Entry(MsgDirectSigVerified, descendant_node_id)>>)
                  ELSE _verify_direct_issuance(n, issuer_node_id, descendant_node_id)
             ELSE _verify_indirect_issuance(n, issuer_node_id, descendant_node_id)

verify_token_as_issuer(n, issuer_node_id, descendant_node_id) ==
    IF ~HasToken(n, descendant_node_id)
    THEN Verdict(FALSE, <<Entry(MsgTokenNotFound, descendant_node_id)>>)
    ELSE IF ~HasToken(n, issuer_node_id)
    THEN Verdict(FALSE, <<Entry(MsgIssuerNodeNotFound, issuer_node_id)>>)
    ELSE LET descendant_token == Tok(n, descendant_node_id)
         IN  IF descendant_token.issuer_id = issuer_node_id
             THEN IF /\ issuer_node_id \in DOMAIN n.node_keys
                     /\ "issuer-direct" \in descendant_token.verification_paths
                  THEN IF verify_issuer_signature(descendant_token,
                                                  n.node_keys[issuer_node_id],
                                                  issuer_node_id)
                       THEN Verdict(TRUE, <<Entry(MsgDirectSigVerified, descendant_node_id)>>)
                       ELSE Verdict(FALSE, <<Entry(MsgDirectSigFailed, None)>>)
                  ELSE _verify_direct_issuance(n, issuer_node_id, descendant_node_id)
             ELSE _verify_indirect_issuance(n, issuer_node_id, descendant_node_id)

\* ----- verify_token_hybrid
\* variant: every attempted method must be valid
Hybrid_all_valid(results) ==
    [valid |-> \A m \in DOMAIN results : results[m].valid,
     results |-> results,
     returns |-> \A m \in DOMAIN results : results[m].returns]

\* the pair (any_valid, results); it returns when every method it calls does
Hybrid(results) ==
    [valid |-> \E m \in DOMAIN results : results[m].valid,
     results |-> results,
     returns |-> \A m \in DOMAIN results : results[m].returns]

verify_token_hybrid(n, node_id) ==
    LET r1 == "chain" :> verify_token(n, node_id)
        r2 == IF /\ HasToken(n, node_id)
                 /\ "master-direct" \in Tok(n, node_id).verification_paths
              THEN ("master-direct" :> verify_token_direct_master(n, node_id)) @@ r1
              ELSE r1
        r3 == IF /\ HasToken(n, node_id)
                 /\ Tok(n, node_id).issuer_id # None /\ Tok(n, node_id).issuer_id # ""
                 /\ HasToken(n, Tok(n, node_id).issuer_id)
              THEN ("issuer-direct" :>
                       verify_token_as_issuer(n, Tok(n, node_id).issuer_id, node_id)) @@ r2
              ELSE r2
    IN  Hybrid(r3)

\* -------------------------------------------------------------- loading
\* the token files that are written into the directory from outside
\* (tests/test_security.py, test_chain_injection_attack)
FakeMasterFile ==
    [node_id |-> "fake-master", issuer_token_hash |-> None, issuer_id |-> None,
     timestamp |-> "t0", token_id |-> "fake-uuid", token_data |-> "fake master",
     token_hash |-> "fake_hash"]
FakeChildFile ==
    [node_id |-> "fake-child", issuer_token_hash |-> "fake_hash",
     issuer_id |-> "fake-master", timestamp |-> "t0", token_id |-> "fake-child-uuid",
     token_data |-> "fake child", token_hash |-> "fake_child_hash"]

\* the file-name stems of the token files, in the order of FileStems
FileStems == NodeNames \o <<"fake-master", "fake-child">>
RECURSIVE StemsFrom(_, _)
StemsFrom(d, i) ==
    IF i > Len(FileStems) THEN <<>>
    ELSE IF FileStems[i] \in DOMAIN d.tokens
         THEN <<FileStems[i]>> \o StemsFrom(d, i + 1)
         ELSE StemsFrom(d, i + 1)
Stems(d) == StemsFrom(d, 1) \o ListOf(DOMAIN d.tokens \ SetOf(FileStems))

\* a file name, as what comes before the suffix and the suffix
FileName(stem, suffix) == [stem |-> stem, suffix |-> suffix]
TokenSuffix == "_token.json"
\* files of the directory that are not token files
OtherFiles == <<FileName("config", ".json")>>

\* the entries of the directory: the token files in the order of NodeNames,
\* then the other files
Entries(d) ==
    LET stems == Stems(d)
    IN  [i \in 1..Len(stems) |-> FileName(stems[i], TokenSuffix)]
        \o SelectSeq(OtherFiles, LAMBDA f : f \in d.others)

\* the orders in which os.listdir may return the entries (as positions in
\* Entries): any order after a write, the order of the last listing otherwise
\* variant: any order at every call
ListDirs_any_order_each_time(d) ==
    LET k == Len(Entries(d))
    IN  {o \in [1..k -> 1..k] : \A i, j \in 1..k : i # j => o[i] # o[j]}

ListDirs(d) ==
    LET k == Len(Entries(d))
    IN  IF k > 0 /\ Len(d.order) = k THEN {d.order}
        ELSE {o \in [1..k -> 1..k] : \A i, j \in 1..k : i # j => o[i] # o[j]}

_load_key_pair(d, name) == IF name \in DOMAIN d.keys THEN d.keys[name] ELSE None

_load_keys(n, d) ==
    [n EXCEPT !.master_private_key = _load_key_pair(d, "master"),
              !.master_public_key = _load_key_pair(d, "master"),
              !.node_keys = [name \in DOMAIN d.keys \ {"master"} |-> d.keys[name]]]

\* the content of a file that json.load does not parse
InvalidJson == [invalid |-> "invalid json content"]
json_load_raises(content) == content = InvalidJson
\* SecureToken.from_dict raises KeyError
from_dict_raises(data) == ~(RequiredKeys \subseteq DOMAIN data)

\* the token files from which the try block of _load_tokens makes a token
Loads(content) == ~json_load_raises(content) /\ ~from_dict_raises(content)
Loaded(d) == SelectSeq(Stems(d), LAMBDA stem : Loads(d.tokens[stem]))
\* the object made from the i-th of them is object i
ObjectOf(d, stem) ==
    LET loaded == Loaded(d)
    IN  CHOOSE i \in 1..Len(loaded) : loaded[i] = stem

\* the loop of _load_tokens over the entries in listing order
RECURSIVE LoadLoop(_, _, _, _)
LoadLoop(n, d, listing, i) ==
    IF i > Len(listing) THEN n
    ELSE LET filename == Entries(d)[listing[i]]
         IN  IF filename.suffix # TokenSuffix
             THEN LoadLoop(n, d, listing, i + 1)
             ELSE IF ~Loads(d.tokens[filename.stem])
             THEN LoadLoop(n, d, listing, i + 1)
             ELSE LET obj == ObjectOf(d, filename.stem)
                      token == n.heap[obj]
                      n1 == [n EXCEPT !.tokens = (token.node_id :> obj) @@ @]
                      n2 == IF token.issuer_token_hash = None
                            THEN [n1 EXCEPT !.master_token = obj] ELSE n1
                  IN  LoadLoop(n2, d, listing, i + 1)

Objects(d) ==
    LET loaded == Loaded(d)
    IN  [i \in 1..Len(loaded) |-> from_dict(d.tokens[loaded[i]])]

\* variant: the tokens are loaded and no root is registered
_load_tokens_without_root(n, d, listing) ==
    [LoadLoop([n EXCEPT !.heap = Objects(d)], d, listing, 1) EXCEPT !.master_token = 0]

\* variant: one file that does not load keeps every token from being loaded
_load_tokens_all_or_nothing(n, d, listing) ==
    IF \E stem \in DOMAIN d.tokens : ~Loads(d.tokens[stem]) THEN n
    ELSE LoadLoop([n EXCEPT !.heap = Objects(d)], d, listing, 1)

_load_tokens(n, d, listing) ==
    LoadLoop([n EXCEPT !.heap = Objects(d)], d, listing, 1)

\* PKITokenNetwork.__init__ on the storage directory
PKITokenNetwork(d, listing) == _load_tokens(_load_keys(NewNet, d), d, listing)

\* ------------------------------------------------------------- actions
Init ==
    /\ net = NewNet
    /\ disk = EmptyDisk
    /\ rng = [uuid |-> 0, key |-> 0]
    /\ last = Outcome("new", None, None, TRUE, None, <<>>)
    /\ edits = 0
    /\ peer = NoInstance

Here == World(net, disk, rng)

Fresh == rng.uuid < MaxFresh /\ rng.key + 3 <= MaxFresh

Apply(r, op, a1, a2) ==
    /\ net' = r.w.net
    /\ disk' = r.w.disk
    /\ rng' = r.w.rng
    /\ last' = Outcome(op, a1, a2, r.ok, r.err, <<>>)
    /\ UNCHANGED <<edits, peer>>

\* a query: the state is read, the result is handed to the caller
Answer(v, op, a1, a2) ==
    /\ v.returns
    /\ last' = Outcome(op, a1, a2, v.valid, None, v.trace)
    /\ UNCHANGED <<net, disk, rng, edits, peer>>

CreateMasterToken(id) ==
    /\ Fresh
    /\ \E now \in Timestamps :
          Apply(create_master_token(Here, id, now), "create_master_token", id, None)

IssueToken(issuer, id) ==
    /\ Fresh
    /\ \E now \in Timestamps, data \in DataInputs :
          Apply(issue_token(Here, issuer, id, data, now), "issue_token", issuer, id)

VerifyToken(id) ==
    Answer(verify_token(net, id), "verify_token", id, None)

VerifyTokenDirectMaster(id) ==
    Answer(verify_token_direct_master(net, id), "verify_token_direct_master", id, None)

VerifyTokenAsIssuer(issuer, id) ==
    Answer(verify_token_as_issuer(net, issuer, id), "verify_token_as_issuer", issuer, id)

\* the results map is handed to the caller in the place of a trace
VerifyTokenHybrid(id) ==
    LET h == verify_token_hybrid(net, id)
    IN  /\ h.returns
        /\ last' = Outcome("verify_token_hybrid", id, None, h.valid, None, h.results)
        /\ UNCHANGED <<net, disk, rng, edits, peer>>

\* SecureToken(node_id): the token made, or the ValueError raised, is handed
\* to the caller (tests/test_secure_token.py)
Construct(id) ==
    /\ Fresh
    /\ \E now \in Timestamps :
          last' = Outcome("SecureToken", id, None, NodeIdError(id) = None, NodeIdError(id),
                          IF NodeIdError(id) = None
                          THEN <<SecureToken(id, None, None, None, None, 0, now,
                                             Uuid4(rng.uuid + 1))>>
                          ELSE <<>>)
    /\ rng' = IF NodeIdError(id) = None THEN [rng EXCEPT !.uuid = @ + 1] ELSE rng
    /\ UNCHANGED <<net, disk, edits, peer>>

\* restored = SecureToken.from_dict(token.to_dict()) on a token of the map;
\* the restored token is handed to the caller in the place of a trace
RestoreToken(id) ==
    /\ HasToken(net, id)
    /\ last' = Outcome("from_dict(to_dict)", id, None, TRUE, None,
                       from_dict(to_dict(Tok(net, id))))
    /\ UNCHANGED <<net, disk, rng, edits, peer>>

\* the instance is discarded and a new one is constructed on the directory;
\* "again" when the discarded one was constructed on it too, with no call and
\* no write since
Reload ==
    /\ \E listing \in ListDirs(disk) :
          /\ net' = PKITokenNetwork(disk, listing)
          /\ disk' = [disk EXCEPT !.order = listing]
    /\ last' = Outcome("PKITokenNetwork",
                       IF last.op = "PKITokenNetwork" THEN "again" ELSE None,
                       None, TRUE, None, <<>>)
    /\ UNCHANGED <<rng, edits, peer>>

\* a second process constructs its instance on the directory
\* (tests/test_persistence.py, test_concurrent_access_simulation)
OpenPeer ==
    /\ peer = NoInstance
    /\ \E listing \in ListDirs(disk) :
          /\ peer' = PKITokenNetwork(disk, listing)
          /\ disk' = [disk EXCEPT !.order = listing]
    /\ last' = Outcome("PKITokenNetwork (peer)", None, None, TRUE, None, <<>>)
    /\ UNCHANGED <<net, rng, edits>>

\* the next calls are made by the other process, on its instance
SwitchProcess ==
    /\ peer # NoInstance
    /\ net' = peer
    /\ peer' = net
    /\ last' = Outcome("switch", None, None, TRUE, None, <<>>)
    /\ UNCHANGED <<disk, rng, edits>>

\* ----- what the tests and an attacker do to a store from outside the class
EditValues(field) ==
    CASE field = "issuer_token_hash" -> {None, "broken-hash"}
      [] field = "issuer_id" -> {NodeNames[NumNodes]}
      [] field = "token_hash" -> {"tampered_hash"}
      [] field = "token_data" -> {"tampered data"}
      [] field = "master_signature" -> {"corrupted_signature"}
      [] field = "node_id" -> {"other-node"}
      [] field = "master_id" -> {"other-master"}
      [] field = "timestamp" -> {"t0"}
EditFields == {"issuer_token_hash", "issuer_id", "token_hash"}
FileEditFields == {"issuer_token_hash", "token_data"}
\* the signature and the four fields it is made over
SignedFields == {"master_signature", "node_id", "token_hash", "master_id", "timestamp"}

\* token.<field> = value on the object the map holds (test_pki_network.py)
EditToken(id, field, value) ==
    /\ edits < MaxEdits
    /\ HasToken(net, id)
    /\ Tok(net, id)[field] # value
    /\ net' = [net EXCEPT !.heap[net.tokens[id]][field] = value]
    /\ last' = Outcome("edit", None, None, TRUE, None, <<>>)
    /\ edits' = edits + 1
    /\ UNCHANGED <<disk, rng, peer>>

\* a store that holds only some of the tokens: the entry of one node is
\* left out of the map (test_master_verification_without_intermediates)
DropToken(id) ==
    /\ edits < MaxEdits
    /\ HasToken(net, id)
    /\ net' = [net EXCEPT !.tokens = [x \in DOMAIN @ \ {id} |-> @[x]]]
    /\ last' = Outcome("drop", None, None, TRUE, None, <<>>)
    /\ edits' = edits + 1
    /\ UNCHANGED <<disk, rng, peer>>

\* a token file is rewritten with one key changed (tests/test_security.py)
EditFile(stem, field, value) ==
    /\ edits < MaxFileEdits
    /\ stem \in DOMAIN disk.tokens
    /\ field \in DOMAIN disk.tokens[stem]
    /\ disk.tokens[stem][field] # value
    /\ disk' = [disk EXCEPT !.tokens[stem][field] = value, !.order = <<>>]
    /\ last' = Outcome("edit file", None, None, TRUE, None, <<>>)
    /\ edits' = edits + 1
    /\ UNCHANGED <<net, rng, peer>>

\* a token file is overwritten with text that is not JSON
\* (tests/test_persistence.py, test_corrupted_token_file_handling)
CorruptFile(stem) ==
    /\ edits < MaxFaults
    /\ stem \in DOMAIN disk.tokens
    /\ disk.tokens[stem] # InvalidJson
    /\ disk' = [disk EXCEPT !.tokens[stem] = InvalidJson, !.order = <<>>]
    /\ last' = Outcome("corrupt file", None, None, TRUE, None, <<>>)
    /\ edits' = edits + 1
    /\ UNCHANGED <<net, rng, peer>>

\* a token file is rewritten without one of its keys
\* (tests/test_persistence.py, test_missing_token_file_fields)
RemovedKeys == {"token_hash", "verification_paths"}
RemoveKey(stem, key) ==
    /\ edits < MaxFaults
    /\ stem \in DOMAIN disk.tokens
    /\ key \in DOMAIN disk.tokens[stem]
    /\ disk' = [disk EXCEPT !.tokens[stem] = [k \in DOMAIN @ \ {key} |-> @[k]],
                            !.order = <<>>]
    /\ last' = Outcome("remove key", None, None, TRUE, None, <<>>)
    /\ edits' = edits + 1
    /\ UNCHANGED <<net, rng, peer>>

\* a file that is not a token file is put into the directory
\* (tests/test_persistence.py, test_non_token_files_in_directory)
PutOtherFile(f) ==
    /\ f \notin disk.others
    /\ disk' = [disk EXCEPT !.others = @ \cup {f}, !.order = <<>>]
    /\ last' = Outcome("put file", None, None, TRUE, None, <<>>)
    /\ UNCHANGED <<net, rng, edits, peer>>

\* the token files of a second root and of a child of it are written into
\* the directory (tests/test_security.py, test_chain_injection_attack)
InjectHierarchy ==
    /\ "fake-master" \notin DOMAIN disk.tokens
    /\ disk' = [disk EXCEPT !.tokens = ("fake-master" :> FakeMasterFile)
                                        @@ ("fake-child" :> FakeChildFile) @@ @,
                            !.order = <<>>]
    /\ last' = Outcome("inject", None, None, TRUE, None, <<>>)
    /\ UNCHANGED <<net, rng, edits, peer>>

\* a signed field of a token object, or its signature, is corrupted
CorruptToken(id, field, value) ==
    /\ edits < MaxFaults
    /\ HasToken(net, id)
    /\ Tok(net, id)[field] # value
    /\ net' = [net EXCEPT !.heap[net.tokens[id]][field] = value]
    /\ last' = Outcome("corrupt", None, None, TRUE, None, <<>>)
    /\ edits' = edits + 1
    /\ UNCHANGED <<disk, rng, peer>>

\* the two key files of a name are missing or unreadable
LoseKeyFiles(name) ==
    /\ edits < MaxFaults
    /\ name \in DOMAIN disk.keys
    /\ disk' = [disk EXCEPT !.keys = [x \in DOMAIN @ \ {name} |-> @[x]]]
    /\ last' = Outcome("lose keys", None, None, TRUE, None, <<>>)
    /\ edits' = edits + 1
    /\ UNCHANGED <<net, rng, peer>>

\* the calls of the public interface: masters are named from masterIds, new
\* nodes from newIds, issuers from issuerIds, the nodes asked about from ids
Calls(masterIds, issuerIds, newIds, ids) ==
    \/ \E id \in masterIds : CreateMasterToken(id)
    \/ \E issuer \in issuerIds, id \in newIds : IssueToken(issuer, id)
    \/ \E id \in ids : VerifyToken(id)
    \/ \E id \in ids : VerifyTokenDirectMaster(id)

\* one instance on a store that starts empty
Next ==
    \/ Calls(Ids, Ids, Ids, Ids)
    \/ \E issuer \in Ids, id \in Ids : VerifyTokenAsIssuer(issuer, id)

Spec == Init /\ [][Next]_vars

\* the identifiers in use, and the callers' next unused name: node names are
\* interchangeable, so callers that take them in the order of NodeNames
\* build every shape of hierarchy
Used == DOMAIN net.tokens \cup DOMAIN disk.tokens
NextId(n) ==
    {NodeNames[i] : i \in {j \in 1..n :
                             /\ NodeNames[j] \notin Used
                             /\ \A k \in 1..(j - 1) : NodeNames[k] \in Used}}

\* the name "master", which is also the name of the master's key files, or
\* the next unused one of the other names
NextIdOrMaster(n) ==
    ({"master"} \ Used) \cup
    {NodeNames[i] : i \in {j \in 2..n :
                             /\ NodeNames[j] \notin Used
                             /\ \A k \in 2..(j - 1) : NodeNames[k] \in Used}}

\* sessions one after the other on the same directory, each instance made
\* after the one before it has finished; the calls are calls that succeed
NextReload ==
    \/ Calls(NextIdOrMaster(NumNodes), DOMAIN net.tokens,
             NextIdOrMaster(NumNodes), Nodes)
    \/ Reload

SpecReload == Init /\ [][NextReload]_vars

\* one instance whose token objects are edited from outside; the callers
\* build the hierarchy with calls that succeed
NextEdited ==
    \/ Calls(NextId(NumNodes), DOMAIN net.tokens, NextId(NumNodes), Nodes)
    \/ \E id \in Nodes, field \in EditFields :
          \E value \in EditValues(field) : EditToken(id, field, value)
    \/ \E id \in Nodes : DropToken(id)
    \/ \E id \in Nodes : VerifyTokenHybrid(id)
    \/ \E id \in Nodes : RestoreToken(id)

SpecEdited == Init /\ [][NextEdited]_vars

\* the first token a process constructs, the root it creates and the first
\* token it issues, under identifiers of every kind
NextIds ==
    \/ \E id \in IdStrings \cup {None} : rng.uuid = 0 /\ Construct(id)
    \/ \E id \in IdStrings : net.master_token = 0 /\ CreateMasterToken(id)
    \/ \E issuer \in DOMAIN net.tokens \cap Nodes, id \in IdStrings :
          /\ DOMAIN net.tokens = {issuer}
          /\ IssueToken(issuer, id)

SpecIds == Init /\ [][NextIds]_vars

\* two processes on one directory, each with its own instance, and the
\* instances constructed on the directory later
NextPeers ==
    \/ \E id \in NextId(NumNodes) : CreateMasterToken(id)
    \/ \E issuer \in DOMAIN net.tokens, id \in NextId(NumNodes) : IssueToken(issuer, id)
    \/ OpenPeer
    \/ SwitchProcess
    \/ Reload

SpecPeers == Init /\ [][NextPeers]_vars

\* sessions on a directory into which a second hierarchy is injected
NextInjected ==
    \/ \E id \in NextId(NumFileNodes) : CreateMasterToken(id)
    \/ \E issuer \in DOMAIN net.tokens, id \in NextId(NumFileNodes) : IssueToken(issuer, id)
    \/ \E id \in DOMAIN net.tokens : VerifyToken(id)
    \/ Reload
    \/ InjectHierarchy

SpecInjected == Init /\ [][NextInjected]_vars

\* sessions on a directory whose token files are edited from outside
\* the file of a token is rewritten to name a token it issued as its issuer,
\* with that token's hash (tests/test_security.py,
\* test_circular_reference_detection)
RedirectFile(stem, to) ==
    /\ edits < MaxFileEdits
    /\ stem \in DOMAIN disk.tokens /\ to \in DOMAIN disk.tokens
    /\ disk.tokens[to].issuer_id = stem
    /\ disk.tokens[stem].issuer_id # to
    /\ disk' = [disk EXCEPT !.tokens[stem].issuer_token_hash = disk.tokens[to].token_hash,
                            !.tokens[stem].issuer_id = to,
                            !.order = <<>>]
    /\ last' = Outcome("redirect file", None, None, TRUE, None, <<>>)
    /\ edits' = edits + 1
    /\ UNCHANGED <<net, rng, peer>>

\* sessions on a directory in which token files are made to name each other
NextCycle ==
    \/ \E id \in NextId(NumNodes) : CreateMasterToken(id)
    \/ \E issuer \in DOMAIN net.tokens, id \in NextId(NumNodes) : IssueToken(issuer, id)
    \/ \E id \in DOMAIN net.tokens : VerifyToken(id)
    \/ Reload
    \/ \E stem \in DOMAIN disk.tokens, to \in DOMAIN disk.tokens : RedirectFile(stem, to)

SpecCycle == Init /\ [][NextCycle]_vars

\* sessions on a directory from which key files of nodes are lost and in
\* which token files lose their list of verification paths, with token
\* objects whose timestamp or token_hash is altered; the caller asks whether
\* a token was issued by a node
NextIssuerKeys ==
    \/ \E id \in NextId(NumFileNodes) : CreateMasterToken(id)
    \/ \E issuer \in DOMAIN net.tokens, id \in NextId(NumFileNodes) : IssueToken(issuer, id)
    \/ \E issuer \in DOMAIN net.tokens, id \in DOMAIN net.tokens :
          VerifyTokenAsIssuer(issuer, id)
    \/ Reload
    \/ \E name \in FileNodes : LoseKeyFiles(name)
    \/ \E id \in FileNodes, field \in {"timestamp", "token_hash"} :
          \E value \in EditValues(field) : CorruptToken(id, field, value)
    \/ \E stem \in FileNodes : RemoveKey(stem, "verification_paths")

SpecIssuerKeys == Init /\ [][NextIssuerKeys]_vars

\* two instances constructed on the same directory, their calls interleaved;
\* each caller names any node, whatever the other instance has written
NextRace ==
    \/ \E id \in FileNodes : CreateMasterToken(id)
    \/ \E issuer \in DOMAIN net.tokens, id \in FileNodes : IssueToken(issuer, id)
    \/ OpenPeer
    \/ SwitchProcess

SpecRace == Init /\ [][NextRace]_vars

\* sessions on a directory in which the issuer hash of token files is
\* rewritten, a new instance being constructed after each rewriting; the
\* caller asks whether a token was issued by a node, directly or through
\* other nodes
NextAncestors ==
    \/ \E id \in NextId(NumNodes) : CreateMasterToken(id)
    \/ \E issuer \in DOMAIN net.tokens, id \in NextId(NumNodes) : IssueToken(issuer, id)
    \/ \E issuer \in DOMAIN net.tokens, id \in DOMAIN net.tokens :
          VerifyTokenAsIssuer(issuer, id)
    \/ last.op = "edit file" /\ Reload
    \/ \E stem \in Nodes :
          edits < MaxEdits /\ EditFile(stem, "issuer_token_hash", "broken-hash")

SpecAncestors == Init /\ [][NextAncestors]_vars

NextFiles ==
    \/ Calls(Used \cup NextId(NumFileNodes), DOMAIN net.tokens,
            NextId(NumFileNodes), FileNodes)
    \/ Reload
    \/ \E stem \in FileNodes, field \in FileEditFields :
          \E value \in EditValues(field) : EditFile(stem, field, value)

SpecFiles == Init /\ [][NextFiles]_vars

\* sessions on a directory that loses key files, with token objects whose
\* signed fields are corrupted
NextKeys ==
    \/ Calls(NextId(NumFileNodes), DOMAIN net.tokens,
             NextId(NumFileNodes), FileNodes)
    \/ Reload
    \/ \E name \in {"master"} \cup FileNodes : LoseKeyFiles(name)
    \/ \E id \in FileNodes, field \in SignedFields :
          \E value \in EditValues(field) : CorruptToken(id, field, value)

SpecKeys == Init /\ [][NextKeys]_vars

\* sessions on a directory in which token files are corrupted and other
\* files appear
NextCorrupt ==
    \/ \E id \in NextId(NumFileNodes) : CreateMasterToken(id)
    \/ \E issuer \in DOMAIN net.tokens, id \in NextId(NumFileNodes) : IssueToken(issuer, id)
    \/ Reload
    \/ \E stem \in FileNodes : CorruptFile(stem)
    \/ \E stem \in FileNodes, key \in RemovedKeys : RemoveKey(stem, key)
    \/ \E i \in 1..Len(OtherFiles) : PutOtherFile(OtherFiles[i])

SpecCorrupt == Init /\ [][NextCorrupt]_vars

\* sessions on a directory that loses key files; the tokens are those the
\* calls produced
NextLostKeys ==
    \/ Calls(NextId(NumFileNodes), DOMAIN net.tokens,
             NextId(NumFileNodes), FileNodes)
    \/ Reload
    \/ \E name \in {"master"} \cup FileNodes : LoseKeyFiles(name)

SpecLostKeys == Init /\ [][NextLostKeys]_vars

\* ======================================================================
\* Properties
\* ======================================================================
MsgOf(v) == v.trace[Len(v.trace)]
IsRootShaped(t) == t.issuer_token_hash = None
Level2 == {id \in DOMAIN net.tokens : Tok(net, id).hierarchy_level = 2}

\* C1: issue(issuer_id, new_node_id, data) fails, in this order of
\* precedence, with NoMaster when no root is registered, IssuerNotFound when
\* issuer_id has no token, SelfIssuance when issuer_id = new_node_id and
\* DuplicateNode when new_node_id has a token; it reports each of the four
\* only then.  (last' is the call that made the step, net the state it ran in.)
C1_IssueErrorPrecedence ==
    [][last'.op = "issue_token" =>
        LET issuer == last'.a1
            new == last'.a2
            noMaster == net.master_token = 0
            noIssuer == ~HasToken(net, issuer)
            same == issuer = new
            dup == HasToken(net, new)
        IN  /\ (last'.err = ErrNoMaster) = noMaster
            /\ (last'.err = ErrIssuerNotFound) = (~noMaster /\ noIssuer)
            /\ (last'.err = ErrSame) = (~noMaster /\ ~noIssuer /\ same)
            /\ (last'.err = ErrHasToken) = (~noMaster /\ ~noIssuer /\ ~same /\ dup)
            /\ last'.ok => ~(noMaster \/ noIssuer \/ same \/ dup)]_vars

\* issue(x, x) for a node x that has a token has just reported SelfIssuance
C1_Witness ==
    /\ last.op = "issue_token" /\ last.err = ErrSame
    /\ last.a1 = last.a2 /\ HasToken(net, last.a1)

\* C2: create_master(master_id) fails with DuplicateMaster whenever a root is
\* registered, whatever master_id is, fails with DuplicateNode when no root
\* is registered but master_id has a token, and succeeds only when neither
\* holds.
C2_CreateMasterErrors ==
    [][last'.op = "create_master_token" =>
        LET id == last'.a1
        IN  /\ (last'.err = ErrMasterExists) = (net.master_token # 0)
            /\ (last'.err = ErrHasToken) = (net.master_token = 0 /\ HasToken(net, id))
            /\ last'.ok => (net.master_token = 0 /\ ~HasToken(net, id))]_vars

\* create_master has just failed with DuplicateNode: no root is registered and
\* the node has a token
C2_Witness ==
    /\ last.op = "create_master_token" /\ last.err = ErrHasToken
    /\ net.master_token = 0 /\ HasToken(net, last.a1)

\* C3: at most one token of the map has issuer_token_hash = None, and if
\* there is one it is the registered root and is stored under its own node_id.
C3_AtMostOneRoot ==
    LET roots == {id \in DOMAIN net.tokens : IsRootShaped(Tok(net, id))}
    IN  /\ Cardinality(roots) <= 1
        /\ \A id \in roots : /\ net.tokens[id] = net.master_token
                             /\ Tok(net, id).node_id = id

\* a second create_master was refused in a store that holds the root and two
\* issued tokens
C3_Witness ==
    /\ last.op = "create_master_token" /\ ~last.ok
    /\ Cardinality(DOMAIN net.tokens) = 3
    /\ net.master_token # 0 /\ IsRootShaped(MasterTok(net))

\* C4: every issued token has hierarchy_level = its issuer's level + 1 (the
\* root has level 0) and issuer_token_hash = its issuer's token_hash, in the
\* state after its issuance and in every later state.
C4_LevelAndHashLink ==
    \A id \in DOMAIN net.tokens :
        LET t == Tok(net, id)
        IN  IF net.tokens[id] = net.master_token
            THEN t.hierarchy_level = 0
            ELSE /\ HasToken(net, t.issuer_id)
                 /\ t.hierarchy_level = Tok(net, t.issuer_id).hierarchy_level + 1
                 /\ t.issuer_token_hash = Tok(net, t.issuer_id).token_hash

\* a token was issued by an issuer that was itself issued earlier
C4_Witness ==
    /\ last.op = "issue_token" /\ last.ok
    /\ last.a2 \in Level2
    /\ Tok(net, last.a1).hierarchy_level = 1

\* C5: verify_chain(n) is valid for every token n; its trace has
\* hierarchy_level(n) + 1 entries, naming n first, then each successive
\* issuer, and the root last.
C5_ChainValidWithFullTrace ==
    \A id \in DOMAIN net.tokens :
        LET v == verify_token(net, id)
            k == Tok(net, id).hierarchy_level + 1
        IN  /\ v.returns /\ v.valid
            /\ Len(v.trace) = k
            /\ v.trace[1] = Entry(Link, id)
            /\ \A i \in 1..(k - 1) :
                  v.trace[i + 1] = Entry(Link, Tok(net, v.trace[i].node).issuer_id)
            /\ v.trace[k] = Entry(Link, MasterTok(net).node_id)

\* verify_chain of a token two levels below the root has returned valid with
\* a trace of three entries
C5_Witness ==
    /\ last.op = "verify_token" /\ last.ok /\ Len(last.trace) = 3
    /\ last.a1 \in Level2

\* C9: verify_master_direct(n) is valid for every token n of the session that
\* has "master-direct" in its verification paths, the root included.
C9_MasterDirectValid ==
    \A id \in DOMAIN net.tokens :
        "master-direct" \in Tok(net, id).verification_paths
            => verify_token_direct_master(net, id).valid

\* verify_master_direct has returned valid for a token two levels below the
\* root, and the root verifies too
C9_Witness ==
    /\ last.op = "verify_token_direct_master" /\ last.ok
    /\ last.a1 \in Level2
    /\ "master-direct" \in MasterTok(net).verification_paths

\* the objects verify_chain visits from a node: each is reached from the one
\* before it through a link that checks (issuer in the store, hashes equal)
LinkChecks(t) ==
    /\ ~IsRootShaped(t)
    /\ HasToken(net, t.issuer_id)
    /\ Tok(net, t.issuer_id).token_hash = t.issuer_token_hash
RECURSIVE WalkFrom(_, _)
WalkFrom(obj, k) ==
    IF k > 0 /\ LinkChecks(net.heap[obj])
    THEN <<obj>> \o WalkFrom(net.tokens[net.heap[obj].issuer_id], k - 1)
    ELSE <<obj>>
Walk(id) == WalkFrom(net.tokens[id], Cardinality(DOMAIN net.tokens))
OnWalk(id) == {net.heap[Walk(id)[i]] : i \in 1..Len(Walk(id))}
\* the token's issuer is in the store and its token_hash is not the token's
\* issuer_token_hash
HashAltered(t) ==
    /\ HasToken(net, t.issuer_id)
    /\ Tok(net, t.issuer_id).token_hash # t.issuer_token_hash

\* C6 as stated: if the issuer_token_hash of a token on the path from n is
\* any value other than its issuer's current token_hash, verify_chain(n) is
\* invalid and the last trace entry reports that the hash chain is broken.
C6_AnyAlterationReportsBrokenChain ==
    \A id \in DOMAIN net.tokens : \A t \in OnWalk(id) :
        HashAltered(t) =>
            /\ ~verify_token(net, id).valid
            /\ MsgOf(verify_token(net, id)).kind = MsgHashChainBroken

\* C6 amended: the report is "hash chain broken" when the altered
\* issuer_token_hash is not None; a token whose issuer_token_hash is None is
\* taken for a root, and verify_chain(n) is invalid with "Invalid master
\* token" unless that token is the registered root.
C6_AlterationReportsBrokenChain ==
    \A id \in DOMAIN net.tokens : \A t \in OnWalk(id) :
        LET v == verify_token(net, id)
        IN  /\ (HashAltered(t) /\ t.issuer_token_hash # None)
                => (~v.valid /\ MsgOf(v).kind = MsgHashChainBroken)
            /\ (IsRootShaped(t) /\ (net.master_token = 0 \/ t # MasterTok(net)))
                => (~v.valid /\ MsgOf(v).kind = MsgInvalidMaster)

\* verify_chain of a token two levels down has reported the broken chain at
\* its issuer's link
C6_Witness ==
    /\ last.op = "verify_token" /\ ~last.ok
    /\ MsgOf(last).kind = MsgHashChainBroken
    /\ Len(last.trace) = 3
    /\ edits > 0

\* C7: if a non-root token on the issuer path from n names an issuer_id that
\* has no token in the store, verify_chain(n) is invalid and the last trace
\* entry reports that this issuer was not found; verify_chain of a node with
\* no token is invalid with the single entry "token not found".
C7_MissingIssuerReported ==
    /\ \A id \in DOMAIN net.tokens : \A t \in OnWalk(id) :
          (~IsRootShaped(t) /\ ~HasToken(net, t.issuer_id)) =>
              /\ ~verify_token(net, id).valid
              /\ MsgOf(verify_token(net, id)) = Entry(MsgIssuerNotFound, t.issuer_id)
    /\ \A id \in Ids \ DOMAIN net.tokens :
          verify_token(net, id) = Verdict(FALSE, <<Entry(MsgTokenNotFound, id)>>)

\* verify_chain has reported a missing issuer above the issuer of the node
\* it was asked about
C7_Witness ==
    /\ last.op = "verify_token" /\ ~last.ok
    /\ MsgOf(last).kind = MsgIssuerNotFound
    /\ Len(last.trace) = 3
    /\ ~HasToken(net, MsgOf(last).node)

\* C8: a token whose stored token_hash no longer equals the fingerprint of
\* its content fields is treated as tampered: its verification fails (here:
\* the chain verification or the master-direct verification of it fails).
C8_TamperedContentFailsVerification ==
    \A id \in DOMAIN net.tokens :
        Tok(net, id).token_hash # _generate_token_hash(Tok(net, id))
            => ~(verify_token(net, id).valid /\ verify_token_direct_master(net, id).valid)

\* the network state that holds token n and the master public key of net and
\* nothing else
OnlyToken(n, id) ==
    [NewNet EXCEPT !.heap = <<Tok(n, id)>>,
                   !.tokens = (id :> 1),
                   !.master_public_key = n.master_public_key]

\* C10: the result of verify_master_direct(n) depends only on token n and
\* the master public key (it is the result in the state that holds nothing
\* else), and where the issuer of a non-root token n is absent from the
\* store the chain verification of n fails.
C10_MasterDirectIndependent ==
    \A id \in DOMAIN net.tokens :
        /\ verify_token_direct_master(net, id)
               = verify_token_direct_master(OnlyToken(net, id), id)
        /\ (~IsRootShaped(Tok(net, id)) /\ ~HasToken(net, Tok(net, id).issuer_id))
               => ~verify_token(net, id).valid

\* in a store that holds only the root and a token two levels down,
\* verify_master_direct of that token has returned valid and its chain
\* verification is invalid
C10_Witness ==
    /\ last.op = "verify_token_direct_master" /\ last.ok
    /\ last.a1 \in Level2
    /\ DOMAIN net.tokens = {last.a1, MasterTok(net).node_id}
    /\ ~verify_token(net, last.a1).valid

\* the reasons for which verify_master_direct of a node refuses, as the
\* messages that name them
Unsigned(t, key) ==
    ~SigVerifies(key, t.master_signature, SignContent(t, t.master_id))
RefusalReasons(id) ==
    IF ~HasToken(net, id) THEN {MsgTokenNotFound}
    ELSE {m \in {MsgMasterSigUnavailable, MsgNoMasterPublicKey, MsgMasterSigFailed} :
            \/ m = MsgMasterSigUnavailable
                  /\ "master-direct" \notin Tok(net, id).verification_paths
            \/ m = MsgNoMasterPublicKey /\ net.master_public_key = None
            \/ m = MsgMasterSigFailed /\ Unsigned(Tok(net, id), net.master_public_key)}

\* C11: verify_master_direct returns for every node; it is invalid, with a
\* one-entry trace that names a reason that holds, when the token is
\* unknown, when "master-direct" is not in its paths, when no master public
\* key is loaded, or when the master signature does not verify over
\* (node_id, token_hash, master_id, timestamp).
C11_MasterDirectRefusals ==
    \A id \in Ids :
        LET v == verify_token_direct_master(net, id)
        IN  /\ v.returns
            /\ RefusalReasons(id) # {} =>
                  /\ ~v.valid
                  /\ Len(v.trace) = 1
                  /\ v.trace[1].kind \in RefusalReasons(id)

\* verify_master_direct has refused a token that carries the path, under a
\* loaded master key, because a signed field was corrupted
C11_Witness ==
    /\ last.op = "verify_token_direct_master" /\ ~last.ok
    /\ MsgOf(last).kind = MsgMasterSigFailed
    /\ HasToken(net, last.a1)
    /\ "master-direct" \in Tok(net, last.a1).verification_paths
    /\ net.master_public_key # None
    /\ edits > 0

\* C12: the master key pair is generated once and then only loaded: in a
\* store that has a root, whatever the root's identifier, a new instance on
\* the directory holds the master key pair of the present instance, and
\* every token that passes master-direct verification now passes it there.
C12_MasterKeysPersist ==
    net.master_token # 0 =>
        \A listing \in ListDirs(disk) :
            LET n2 == PKITokenNetwork(disk, listing)
            IN  /\ n2.master_private_key = net.master_private_key
                /\ n2.master_public_key = net.master_public_key
                /\ \A id \in DOMAIN net.tokens :
                      verify_token_direct_master(net, id).valid
                          => verify_token_direct_master(n2, id).valid

\* the nodes above a node in the issuance tree: its issuer, the issuer's
\* issuer, and so on up to the root
RECURSIVE AncestorsUpTo(_, _)
AncestorsUpTo(id, k) ==
    IF k = 0 \/ ~HasToken(net, id) \/ Tok(net, id).issuer_id = None THEN {}
    ELSE {Tok(net, id).issuer_id} \cup AncestorsUpTo(Tok(net, id).issuer_id, k - 1)
ProperAncestors(id) == AncestorsUpTo(id, Cardinality(DOMAIN net.tokens))

\* C13: for two nodes i and d that have tokens, verify_as_issuer(i, d) is
\* valid exactly when i is a proper ancestor of d in the issuance tree; so it
\* is invalid when i = d, when i is a descendant or a sibling of d, and when
\* d is the root.
C13_AsIssuerIffProperAncestor ==
    \A i \in DOMAIN net.tokens, d \in DOMAIN net.tokens :
        LET v == verify_token_as_issuer(net, i, d)
        IN  /\ v.returns
            /\ v.valid = (i \in ProperAncestors(d))
            /\ (i = d \/ d = MasterTok(net).node_id) => ~v.valid

\* verify_as_issuer(root, leaf) has returned valid for a leaf two levels down,
\* through the walk over the leaf's issuer
C13_Witness ==
    /\ last.op = "verify_token_as_issuer" /\ last.ok
    /\ last.a1 = MasterTok(net).node_id
    /\ last.a2 \in Level2
    /\ MsgOf(last) = Entry(MsgIssuerFound, last.a1)

\* the methods verify_hybrid has to attempt for a node
Attempted(id) ==
    {"chain"}
    \cup {m \in {"master-direct"} :
            HasToken(net, id) /\ "master-direct" \in Tok(net, id).verification_paths}
    \cup {m \in {"issuer-direct"} :
            HasToken(net, id) /\ HasToken(net, Tok(net, id).issuer_id)}
MethodAlone(m, id) ==
    CASE m = "chain" -> verify_token(net, id)
      [] m = "master-direct" -> verify_token_direct_master(net, id)
      [] m = "issuer-direct" -> verify_token_as_issuer(net, Tok(net, id).issuer_id, id)

\* C14: verify_hybrid(n) always attempts chain verification, master-direct
\* exactly when n has a token with "master-direct" in its paths, and
\* issuer-direct exactly when n's declared issuer has a token in the store;
\* the returned map holds exactly the attempted methods, each with the
\* result the method gives on its own, and the overall result is valid if
\* and only if one of them is.
C14_HybridIsOrOfAttempted ==
    \A id \in Nodes :
        LET h == verify_token_hybrid(net, id)
        IN  h.returns =>
               /\ DOMAIN h.results = Attempted(id)
               /\ \A m \in Attempted(id) :
                     /\ h.results[m].valid = MethodAlone(m, id).valid
                     /\ h.results[m].trace = MethodAlone(m, id).trace
               /\ h.valid = (\E m \in Attempted(id) : MethodAlone(m, id).valid)

\* verify_hybrid has returned valid with all three methods attempted and the
\* chain verification among them invalid
C14_Witness ==
    /\ last.op = "verify_token_hybrid" /\ last.ok
    /\ DOMAIN last.trace = {"chain", "master-direct", "issuer-direct"}
    /\ ~last.trace["chain"].valid

AllPaths == {"chain", "master-direct", "issuer-direct"}

\* C15: for every token, verification_paths contains "chain", contains
\* "master-direct" if and only if master_signature is set and
\* "issuer-direct" if and only if issuer_signature is set; the root has
\* {chain, master-direct}; and a token issued while the master private key is
\* available has all three paths.
C15_PathsFollowSignatures ==
    /\ [](\A id \in DOMAIN net.tokens :
             LET t == Tok(net, id)
             IN  /\ "chain" \in t.verification_paths
                 /\ ("master-direct" \in t.verification_paths) = (t.master_signature # None)
                 /\ ("issuer-direct" \in t.verification_paths) = (t.issuer_signature # None)
                 /\ net.tokens[id] = net.master_token
                       => t.verification_paths = {"chain", "master-direct"})
    /\ [][(last'.op = "issue_token" /\ last'.ok /\ net.master_private_key # None)
             => Tok(net', last'.a2).verification_paths = AllPaths]_vars

\* a token has just been issued with all three paths under a root that has
\* its two
C15_Witness ==
    /\ last.op = "issue_token" /\ last.ok
    /\ Tok(net, last.a2).verification_paths = AllPaths
    /\ MasterTok(net).verification_paths = {"chain", "master-direct"}

\* C16: when the master private key is not loaded, issue on otherwise valid
\* arguments succeeds; the new token is in the map and in its file, has no
\* master_signature and no "master-direct" path, and verify_chain of it is
\* valid.
C16_IssueWithoutMasterKey ==
    [][(/\ last'.op = "issue_token"
        /\ net.master_private_key = None
        /\ net.master_token # 0
        /\ HasToken(net, last'.a1)
        /\ last'.a1 # last'.a2
        /\ ~HasToken(net, last'.a2)
        /\ ValidNodeId(last'.a2))
       => /\ last'.ok
          /\ HasToken(net', last'.a2)
          /\ last'.a2 \in DOMAIN disk'.tokens
          /\ from_dict(disk'.tokens[last'.a2]) = Tok(net', last'.a2)
          /\ Tok(net', last'.a2).master_signature = None
          /\ "master-direct" \notin Tok(net', last'.a2).verification_paths
          /\ verify_token(net', last'.a2).valid]_vars

\* a token has just been issued by an instance that was loaded without the
\* master key files; it carries the chain and issuer paths only
C16_Witness ==
    /\ last.op = "issue_token" /\ last.ok
    /\ net.master_private_key = None
    /\ Tok(net, last.a2).verification_paths = {"chain", "issuer-direct"}
    /\ last.a2 \in DOMAIN disk.tokens

TokenFields == {"node_id", "issuer_token_hash", "issuer_id", "timestamp", "token_id",
                "token_data", "token_hash", "master_id", "hierarchy_level",
                "master_signature", "issuer_signature", "delegation_proof",
                "merkle_proof", "verification_paths"}

\* C17: for every token t, from_dict(to_dict(t)) has the value of t in every
\* field, verification_paths being compared as sets, and its token_hash is
\* the token_hash of t whether or not that is the fingerprint of the fields.
\* (This is so of every token of the map, and of the token the caller has
\* just restored.)
C17_RoundTrip ==
    /\ \A id \in DOMAIN net.tokens :
          LET t == Tok(net, id)
              back == from_dict(to_dict(t))
          IN  /\ DOMAIN back = TokenFields
              /\ \A f \in TokenFields : back[f] = t[f]
    /\ last.op = "from_dict(to_dict)" =>
          /\ last.trace = Tok(net, last.a1)
          /\ last.trace.token_hash = Tok(net, last.a1).token_hash

\* a token with three paths whose token_hash is not the fingerprint of its
\* fields has just been restored from its dictionary
C17_Witness ==
    /\ last.op = "from_dict(to_dict)"
    /\ last.trace.verification_paths = AllPaths
    /\ last.trace.token_hash # _generate_token_hash(last.trace)

\* C18: after any sequence of successful create_master and issue calls,
\* spread over instances made one after the other, a new instance on the
\* directory holds exactly the tokens created so far (those of the present
\* instance, one file each) with the same field values, registers the same
\* root, and verify_chain is valid for every one of them.
C18_PersistenceAcrossSessions ==
    \A listing \in ListDirs(disk) :
        LET n2 == PKITokenNetwork(disk, listing)
        IN  /\ DOMAIN disk.tokens = DOMAIN net.tokens
            /\ DOMAIN n2.tokens = DOMAIN net.tokens
            /\ \A id \in DOMAIN net.tokens :
                  /\ Tok(n2, id) = Tok(net, id)
                  /\ verify_token(n2, id).returns
                  /\ verify_token(n2, id).valid
            /\ (n2.master_token = 0) = (net.master_token = 0)
            /\ net.master_token # 0 => MasterTok(n2) = MasterTok(net)

\* an instance has been loaded that holds a root and a token two levels
\* below it
C18_Witness ==
    /\ last.op = "PKITokenNetwork"
    /\ net.master_token # 0
    /\ Level2 # {}
    /\ Cardinality(DOMAIN net.tokens) = NumNodes

RootShapedFiles ==
    {stem \in DOMAIN disk.tokens :
        Loads(disk.tokens[stem]) /\ disk.tokens[stem].issuer_token_hash = None}

WellFormedFile(content) ==
    /\ content # InvalidJson
    /\ {"node_id", "issuer_token_hash", "issuer_id", "timestamp", "token_id",
        "token_data", "token_hash"} \subseteq DOMAIN content
WellFormedStems == {stem \in DOMAIN disk.tokens : WellFormedFile(disk.tokens[stem])}

\* what an instance holds when it has loaded exactly the well-formed token
\* files of the directory
HoldsWellFormed(n) ==
    /\ DOMAIN n.tokens = {disk.tokens[stem].node_id : stem \in WellFormedStems}
    /\ \A stem \in WellFormedStems :
          LET data == disk.tokens[stem]
              t == Tok(n, data.node_id)
          IN  /\ \A key \in DOMAIN data \ {"verification_paths"} : t[key] = data[key]
              /\ "verification_paths" \in DOMAIN data
                    => t.verification_paths = SetOf(data.verification_paths)

\* C20: loading skips the files whose names do not end in _token.json and
\* excludes, alone, each token file that is not valid JSON or lacks a
\* required field; every well-formed token file of the directory is loaded,
\* whatever else the directory holds, and the load returns an instance.
C20_LoadIsolatesBadFiles ==
    /\ \A listing \in ListDirs(disk) : HoldsWellFormed(PKITokenNetwork(disk, listing))
    /\ last.op = "PKITokenNetwork" => HoldsWellFormed(net)

\* an instance has been loaded from a directory that holds a token file that
\* does not load, a file that is not a token file, and a well-formed token
\* file, which it holds
C20_Witness ==
    /\ last.op = "PKITokenNetwork"
    /\ disk.others # {}
    /\ DOMAIN disk.tokens \ WellFormedStems # {}
    /\ DOMAIN net.tokens # {}

\* the positions of the last listing at which the scan met a token file that
\* loads and has no issuer_token_hash
RootShapedPositions ==
    {i \in 1..Len(disk.order) :
        LET filename == Entries(disk)[disk.order[i]]
        IN  /\ filename.suffix = TokenSuffix
            /\ filename.stem \in RootShapedFiles}
RootAtPosition(i) == disk.tokens[Entries(disk)[disk.order[i]].stem].node_id

\* C21: when the directory holds more than one token file without
\* issuer_token_hash, the instance loaded from it registers as root the
\* token of the first such file of its scan.
C21_FirstRootShapedIsRoot ==
    (last.op = "PKITokenNetwork" /\ Cardinality(RootShapedPositions) > 1)
       => /\ net.master_token # 0
          /\ \A i \in RootShapedPositions :
                (\A j \in RootShapedPositions : i <= j)
                   => MasterTok(net).node_id = RootAtPosition(i)

\* the tokens without issuer_token_hash that the instance holds, the root a
\* token's chain of matching hashes leads to, and a store that holds two
\* roots with a descendant each
RootsHeld == {id \in DOMAIN net.tokens : IsRootShaped(Tok(net, id))}
TopOf(id) == net.heap[Walk(id)[Len(Walk(id))]].node_id
DescendsFrom(id, root) == id # root /\ TopOf(id) = root
TwoTrees ==
    \E r1, r2 \in RootsHeld :
       /\ r1 # r2
       /\ \E id \in DOMAIN net.tokens : DescendsFrom(id, r1)
       /\ \E id \in DOMAIN net.tokens : DescendsFrom(id, r2)
OtherTree ==
    {id \in DOMAIN net.tokens :
        \E r \in RootsHeld : DescendsFrom(id, r) /\ net.tokens[r] # net.master_token}

\* C22 as stated: an instance that holds two independent roots, each with
\* descendants, has one of them as its registered root, and verify_chain of
\* every token descending from the other root is invalid with a trace that
\* ends in "issuer not found".
C22_OtherRootIssuerNotFound ==
    TwoTrees =>
       /\ net.master_token \in {net.tokens[r] : r \in RootsHeld}
       /\ \A id \in OtherTree :
             LET v == verify_token(net, id)
             IN  v.returns /\ ~v.valid /\ MsgOf(v).kind = MsgIssuerNotFound

\* C22 amended: an instance that holds two independent roots, each with
\* descendants, has one of them as its registered root, and verify_chain of
\* every token descending from the other root is invalid with a trace that
\* ends in "Invalid master token": the walk finds every issuer and stops at a
\* root that is not the registered one.
C22_OtherRootInvalidMaster ==
    TwoTrees =>
       /\ net.master_token \in {net.tokens[r] : r \in RootsHeld}
       /\ \A id \in OtherTree :
             LET v == verify_token(net, id)
             IN  v.returns /\ ~v.valid /\ MsgOf(v).kind = MsgInvalidMaster

\* verify_chain has refused a token that descends from the root that is not
\* registered, in an instance loaded from a directory with two hierarchies
C22_Witness ==
    /\ TwoTrees
    /\ last.op = "verify_token" /\ ~last.ok
    /\ last.a1 \in OtherTree
    /\ Len(last.trace) = 3

\* the nodes that have issued a token
Issuers == {Tok(net, id).issuer_id : id \in DOMAIN net.tokens} \ {None}

\* C23: a node has a key pair in the node-key map only if it has issued a
\* token, and a node that has only received a token has no key pair, in
\* memory or on disk (the files of the name "master" hold the master key
\* pair).
C23_NodeKeysLazy ==
    /\ DOMAIN net.node_keys \subseteq Issuers
    /\ \A id \in DOMAIN net.tokens \ Issuers :
          /\ id \notin DOMAIN net.node_keys
          /\ id # "master" => id \notin DOMAIN disk.keys

\* C24: when one process issues a token, the instance of the other process,
\* constructed earlier on the same directory, keeps its token map as it was,
\* without that token, and every instance constructed on the directory
\* afterwards holds the token.
C24_PeersDoNotObserveWrites ==
    [][(last'.op = "issue_token" /\ last'.ok /\ peer # NoInstance)
          => /\ peer' = peer
             /\ last'.a2 \notin DOMAIN peer'.tokens
             /\ \A id \in DOMAIN peer'.tokens : Tok(peer', id) # Tok(net', last'.a2)
             /\ \A listing \in ListDirs(disk') :
                   LET n3 == PKITokenNetwork(disk', listing)
                   IN  /\ last'.a2 \in DOMAIN n3.tokens
                       /\ Tok(n3, last'.a2) = Tok(net', last'.a2)]_vars

\* a token has been issued while a second instance, constructed when the
\* directory held the root only, exists
C24_Witness ==
    /\ last.op = "issue_token" /\ last.ok
    /\ peer # NoInstance
    /\ DOMAIN peer.tokens # {}
    /\ DOMAIN peer.tokens # DOMAIN net.tokens
    /\ last.a2 \notin DOMAIN peer.tokens

\* the nodes a trace of verify_chain visited, in the order of the walk
Visits(trace) == SelectSeq(trace, LAMBDA e : e.kind = Link)
VisitsOnce(trace) ==
    /\ Len(Visits(trace)) <= Cardinality(DOMAIN net.tokens)
    /\ \A i, j \in 1..Len(Visits(trace)) : i # j => Visits(trace)[i].node # Visits(trace)[j].node

\* C25: in a store built by create_master and issue calls verify_chain
\* returns for every node, having visited each token at most once, so after
\* at most as many steps as the store has tokens; the walk ends at the root
\* (valid) or with the one entry of the check that failed.
C25_VerifyChainTerminates ==
    /\ \A id \in Ids :
          LET v == verify_token(net, id)
          IN  /\ v.returns
              /\ VisitsOnce(v.trace)
              /\ v.valid => /\ Len(v.trace) = Len(Visits(v.trace))
                            /\ MsgOf(v).node = MasterTok(net).node_id
              /\ ~v.valid => Len(v.trace) = Len(Visits(v.trace)) + 1
    /\ last.op = "verify_token" => VisitsOnce(last.trace)

\* verify_chain has returned for a token two levels below the root, after
\* three steps
C25_Witness ==
    /\ last.op = "verify_token" /\ last.ok
    /\ last.a1 \in Level2
    /\ Len(last.trace) = 3

\* an identifier of 1 to 64 characters, each alphanumeric or one of - _ .
IdWellFormed(id) ==
    /\ id # None
    /\ Len(IdChars(id)) \in 1..64
    /\ \A i \in 1..Len(IdChars(id)) : IdChars(id)[i] \in AlnumChars \cup {"-", "_", "."}
IdErrors == {ErrIdEmpty, ErrIdTooLong, ErrIdChars}

\* C26: the constructor accepts exactly the identifiers of 1 to 64
\* characters drawn from the alphanumerics and - _ . and rejects every other
\* one with an identifier error; create_master and issue, when no other
\* check refuses the call, succeed for the same identifiers and fail for
\* the others.
C26_IdentifierRule ==
    /\ last.op = "SecureToken"
          => /\ last.ok <=> IdWellFormed(last.a1)
             /\ ~last.ok => last.err \in IdErrors
    /\ (last.op = "create_master_token" /\ last.err \notin {ErrMasterExists, ErrHasToken})
          => (last.ok <=> IdWellFormed(last.a1))
    /\ (last.op = "issue_token"
        /\ last.err \notin {ErrNoMaster, ErrIssuerNotFound, ErrSame, ErrHasToken})
          => (last.ok <=> IdWellFormed(last.a2))

\* the entries that name a failed check, and what the store is like when an
\* entry names a missing token, a hash mismatch or a root that is not the
\* registered one
FailureKinds ==
    {MsgTokenNotFound, MsgIssuerNotFound, MsgIssuerNodeNotFound, MsgMissingIssuer,
     MsgHashChainBroken, MsgHashChainFailed, MsgInvalidMaster,
     MsgMasterSigUnavailable, MsgNoMasterPublicKey,
     MsgMasterSigFailed, MsgDirectSigFailed, MsgNotInChain}
FailureHolds(e) ==
    CASE e.kind \in {MsgTokenNotFound, MsgIssuerNotFound, MsgIssuerNodeNotFound,
                     MsgMissingIssuer} -> ~HasToken(net, e.node)
      [] e.kind \in {MsgHashChainBroken, MsgHashChainFailed} ->
            \E id \in DOMAIN net.tokens : HashAltered(Tok(net, id))
      [] e.kind = MsgInvalidMaster ->
            \E id \in DOMAIN net.tokens :
               IsRootShaped(Tok(net, id)) /\ net.tokens[id] # net.master_token
      [] OTHER -> TRUE
CarriesFailure(trace) ==
    /\ Len(trace) > 0
    /\ trace[Len(trace)].kind \in FailureKinds
    /\ FailureHolds(trace[Len(trace)])

\* C27: every invalid result that verify_chain, verify_master_direct or
\* verify_as_issuer returns has a non-empty trace whose last entry names the
\* check that failed: a missing token or issuer, a hash mismatch, a root
\* that is not the registered one, an unavailable path or key, a failed
\* signature, or an issuer that is not in the chain.
C27_FailuresCarryTrace ==
    /\ \A id \in Nodes, issuer \in Nodes :
          \A v \in {verify_token(net, id), verify_token_direct_master(net, id),
                    verify_token_as_issuer(net, issuer, id)} :
             (v.returns /\ ~v.valid) => CarriesFailure(v.trace)
    /\ (last.op \in {"verify_token", "verify_token_direct_master"} /\ ~last.ok)
          => CarriesFailure(last.trace)

\* verify_chain has returned invalid for a token whose issuer_token_hash was
\* altered, after the entry of the token visited
C27_Witness ==
    /\ last.op = "verify_token" /\ ~last.ok
    /\ Len(last.trace) >= 2
    /\ MsgOf(last).kind = MsgHashChainBroken

\* C28: the root token's master_id is its own node_id, and the master_id of
\* every issued token, at every depth, is the node_id of the registered
\* root; the token files say the same.
C28_MasterIdIsRoot ==
    net.master_token # 0 =>
       /\ MasterTok(net).master_id = MasterTok(net).node_id
       /\ \A id \in DOMAIN net.tokens :
             /\ Tok(net, id).master_id = MasterTok(net).node_id
             /\ disk.tokens[id].master_id = MasterTok(net).node_id

\* a store with a token two levels below the root
C28_Witness ==
    /\ last.op = "issue_token" /\ last.ok
    /\ last.a2 \in Level2
    /\ Tok(net, last.a2).master_id = MasterTok(net).node_id
    /\ Tok(net, last.a2).issuer_id # MasterTok(net).node_id

\* the tokens of the map before the step are the same objects, with the
\* same fields, after it
TokensKept ==
    \A id \in DOMAIN net.tokens :
       /\ id \in DOMAIN net'.tokens
       /\ net'.tokens[id] = net.tokens[id]
       /\ Tok(net', id) = Tok(net, id)

\* C29: within a session (every step but the construction of a new
\* instance) a successful issue adds exactly one entry, the new node, and
\* leaves the registered root and every existing token unchanged; a
\* successful create_master adds exactly one entry; every other operation
\* leaves the token map as it is. The token count therefore is the number
\* of loaded tokens plus the number of successful calls.
C29_IssueAddsOneKeepsRest ==
    [][last'.op # "PKITokenNetwork" =>
          /\ TokensKept
          /\ IF last'.op = "issue_token" /\ last'.ok
             THEN /\ last'.a2 \notin DOMAIN net.tokens
                  /\ DOMAIN net'.tokens = DOMAIN net.tokens \cup {last'.a2}
                  /\ net'.master_token = net.master_token
             ELSE IF last'.op = "create_master_token" /\ last'.ok
             THEN /\ last'.a1 \notin DOMAIN net.tokens
                  /\ DOMAIN net'.tokens = DOMAIN net.tokens \cup {last'.a1}
             ELSE /\ DOMAIN net'.tokens = DOMAIN net.tokens
                  /\ net'.master_token = net.master_token]_vars

\* a successful issue onto a map that held two tokens, both kept as the
\* objects they were
C29_Witness ==
    /\ last.op = "issue_token" /\ last.ok
    /\ Cardinality(DOMAIN net.tokens) = 3
    /\ \E id \in DOMAIN net.tokens \ {last.a2} : net.tokens[id] < net.tokens[last.a2]

\* b names a as its issuer, with a's hash
NamesAsIssuer(b, a) ==
    /\ Tok(net, b).issuer_id = a
    /\ Tok(net, b).issuer_token_hash # None
    /\ Tok(net, b).issuer_token_hash = Tok(net, a).token_hash

\* two tokens of the map that name each other
Cycles ==
    {pair \in (DOMAIN net.tokens) \X (DOMAIN net.tokens) :
        /\ pair[1] # pair[2]
        /\ NamesAsIssuer(pair[1], pair[2])
        /\ NamesAsIssuer(pair[2], pair[1])}

\* id is a, or its issuers lead to a in at most k links
RECURSIVE LeadsTo(_, _, _)
LeadsTo(id, a, k) ==
    \/ id = a
    \/ /\ k > 0
       /\ \E up \in DOMAIN net.tokens : NamesAsIssuer(id, up) /\ LeadsTo(up, a, k - 1)

OnOrBelowCycle ==
    {id \in DOMAIN net.tokens :
        \E pair \in Cycles : LeadsTo(id, pair[1], Cardinality(DOMAIN net.tokens))}

\* C30: in a loaded store where two tokens name each other as issuer with
\* matching hashes, verify_token of a token on or below the cycle returns,
\* and returns invalid.
C30_CycleDetected ==
    \A id \in OnOrBelowCycle :
       /\ verify_token(net, id).returns
       /\ ~verify_token(net, id).valid

\* the token object at which the walk from id stops
WalkEnd(id) == Walk(id)[Len(Walk(id))]

\* the tokens whose walk stops at a token without issuer hash
EndAtRootShaped == {id \in DOMAIN net.tokens : IsRootShaped(net.heap[WalkEnd(id)])}

\* C31: when the walk of verify_chain stops at a token with
\* issuer_token_hash = None, the verdict is valid if and only if that token
\* is the registered root; any other root-shaped token, and any root-shaped
\* token when no root is registered, gives invalid.
C31_RootShapedValidIffRegistered ==
    \A id \in DOMAIN net.tokens :
       LET end == WalkEnd(id)
           v == verify_token(net, id)
       IN  IsRootShaped(net.heap[end]) =>
              /\ v.returns
              /\ v.valid <=> (net.master_token # 0 /\ end = net.master_token)

\* with two root-shaped tokens held, verify_chain has accepted a token
\* below the registered one, and a token below the other one is held
C31_Witness ==
    /\ Cardinality(RootsHeld) = 2
    /\ last.op = "verify_token" /\ last.ok
    /\ last.a1 \in EndAtRootShaped \ RootsHeld
    /\ \E id \in EndAtRootShaped \ RootsHeld : WalkEnd(id) # net.master_token

\* the pairs (issuer, token) of the map in which the token names the issuer
DirectPairs ==
    {pair \in (DOMAIN net.tokens) \X (DOMAIN net.tokens) :
        Tok(net, pair[2]).issuer_id = pair[1]}

\* the issuer's key is loaded and the token has the issuer-direct path
SignatureChecked(i, d) ==
    /\ i \in DOMAIN net.node_keys
    /\ "issuer-direct" \in Tok(net, d).verification_paths

HashesAgree(i, d) == Tok(net, d).issuer_token_hash = Tok(net, i).token_hash

\* C32: verify_as_issuer(i, d) with d's issuer_id = i is the result of the
\* issuer-signature check when i's key is loaded and d has the
\* "issuer-direct" path, whatever the hashes say; only when the key or the
\* path is missing is it the equality of d's issuer_token_hash and i's
\* token_hash.
C32_DirectIssuerSignatureDecides ==
    \A pair \in DirectPairs :
       LET i == pair[1]
           d == pair[2]
           v == verify_token_as_issuer(net, i, d)
       IN  /\ v.returns
           /\ IF SignatureChecked(i, d)
              THEN v.valid = verify_issuer_signature(Tok(net, d), net.node_keys[i], i)
              ELSE v.valid = HashesAgree(i, d)

\* verify_as_issuer has refused a token whose issuer hash is the issuer's
\* token_hash, because the issuer signature fails under the loaded key
C32_Witness ==
    /\ last.op = "verify_token_as_issuer" /\ ~last.ok
    /\ <<last.a1, last.a2>> \in DirectPairs
    /\ SignatureChecked(last.a1, last.a2)
    /\ HashesAgree(last.a1, last.a2)
    /\ MsgOf(last).kind = MsgDirectSigFailed

IssueErrors == {ErrNoMaster, ErrIssuerNotFound, ErrSame, ErrHasToken, ErrIssueFailed}

\* C33: a failed issue call, for any of its five reasons, leaves the token
\* map with its tokens, the registered root, the master key pair, the
\* node-key map and the token and key files as they were before the call.
C33_FailedIssueChangesNothing ==
    [][(last'.op = "issue_token" /\ ~last'.ok) =>
          /\ last'.err \in IssueErrors
          /\ net' = net
          /\ disk'.tokens = disk.tokens
          /\ disk'.keys = disk.keys]_vars

\* issue has refused an invalid identifier asked of an issuer that has a
\* token and no key pair yet
C33_Witness ==
    /\ last.op = "issue_token" /\ ~last.ok
    /\ last.err = ErrIssueFailed
    /\ HasToken(net, last.a1)
    /\ last.a1 \notin DOMAIN net.node_keys
    /\ last.a2 \notin DOMAIN disk.keys

CreateErrors == {ErrMasterExists, ErrHasToken, ErrCreateFailed}

\* C34: a failed create_master call, for any of its three reasons, leaves
\* the instance and the directory as they were: no token is added, no root
\* is registered, and no master key pair is made in memory or written to
\* the keys directory.
C34_FailedCreateChangesNothing ==
    [][(last'.op = "create_master_token" /\ ~last'.ok) =>
          /\ last'.err \in CreateErrors
          /\ net' = net
          /\ disk'.tokens = disk.tokens
          /\ disk'.keys = disk.keys]_vars

\* the token files without issuer hash
RootFiles == {stem \in DOMAIN disk.tokens : disk.tokens[stem].issuer_token_hash = None}

\* the token files and the key files that a step has written over
TokenFilesOverwritten == {stem \in DOMAIN disk.tokens : disk'.tokens[stem] # disk.tokens[stem]}
KeyFilesOverwritten == {name \in DOMAIN disk.keys : disk'.keys[name] # disk.keys[name]}

MasterSigned(n) ==
    {id \in DOMAIN n.tokens : verify_master_signature(Tok(n, id), n.master_public_key)}

PassesChain(n, id) == verify_token(n, id).returns /\ verify_token(n, id).valid

\* C36: after a successful issue on a loaded store every token with a valid
\* master signature passes verify_chain, and a token issued under an issuer
\* that fails verify_chain has no valid master signature.
C36_MasterSignedDescendFromRoot ==
    [][(last'.op = "issue_token" /\ last'.ok) =>
          /\ \A id \in MasterSigned(net') : PassesChain(net', id)
          /\ ~PassesChain(net, last'.a1) => last'.a2 \notin MasterSigned(net')]_vars

\* C37: verify_hybrid of a node is valid only if the node's chain reaches
\* the registered root with matching hashes or the node carries a master
\* signature that verifies under the loaded master public key; a forged
\* token without valid signature, below a root that is not registered, is
\* not reported valid.
C37_HybridNeedsRootOrMasterSignature ==
    \A id \in DOMAIN net.tokens :
       LET h == verify_token_hybrid(net, id)
       IN  (h.returns /\ h.valid) => (PassesChain(net, id) \/ id \in MasterSigned(net))

\* the nodes met by following issuer_id from id, id first, for at most k
\* links; the path stops at a token without issuer_id or with an issuer that
\* has no token
RECURSIVE IssuerPath(_, _)
IssuerPath(id, k) ==
    IF k > 0 /\ Tok(net, id).issuer_id # None /\ HasToken(net, Tok(net, id).issuer_id)
    THEN <<id>> \o IssuerPath(Tok(net, id).issuer_id, k - 1)
    ELSE <<id>>

\* C38: in a store built from the empty directory by create_master and issue
\* calls the issuer links form a tree rooted at the registered root:
\* issuer_id is None exactly when issuer_token_hash is None, the issuer_id
\* of every other token names a token of the store, and following issuer_id
\* from a token reaches the root in exactly hierarchy_level steps, no token
\* met twice.
C38_IssuerLinksFormTree ==
    \A id \in DOMAIN net.tokens :
       LET t == Tok(net, id)
           path == IssuerPath(id, Cardinality(DOMAIN net.tokens))
       IN  /\ net.master_token # 0
           /\ (t.issuer_id = None) <=> (t.issuer_token_hash = None)
           /\ t.issuer_id # None => HasToken(net, t.issuer_id)
           /\ Len(path) = t.hierarchy_level + 1
           /\ path[Len(path)] = MasterTok(net).node_id
           /\ Tok(net, path[Len(path)]).issuer_id = None
           /\ \A i, j \in 1..Len(path) : i # j => path[i] # path[j]

\* a store of three tokens in a line: the path of the deepest has three nodes
C38_Witness ==
    /\ Cardinality(DOMAIN net.tokens) = 3
    /\ \E id \in DOMAIN net.tokens :
          /\ Tok(net, id).hierarchy_level = 2
          /\ Len(IssuerPath(id, 3)) = 3

\* the places of node i on the issuer path of d, d's own place left out
PlacesOnPath(i, d) ==
    LET path == IssuerPath(d, Cardinality(DOMAIN net.tokens))
    IN  {k \in 2..Len(path) : path[k] = i}

\* the first k - 1 links of the issuer path of d have agreeing hashes
Continuous(d, k) ==
    LET path == IssuerPath(d, Cardinality(DOMAIN net.tokens))
    IN  \A j \in 1..(k - 1) :
           Tok(net, path[j]).issuer_token_hash = Tok(net, path[j + 1]).token_hash

\* C39 as stated: a valid verify_as_issuer(i, d) implies that i is on the
\* issuer path of d and that every token on the path from d up to i has
\* issuer_token_hash equal to the token_hash of the token its issuer_id
\* names.
C39_ValidImpliesHashContinuity ==
    \A i \in DOMAIN net.tokens, d \in DOMAIN net.tokens :
       LET v == verify_token_as_issuer(net, i, d)
       IN  (v.returns /\ v.valid) =>
              \E k \in PlacesOnPath(i, d) : Continuous(d, k)

\* C39 amended: a valid verify_as_issuer(i, d) implies that i is on the
\* issuer path of d, reached by following issuer_id through tokens of the
\* store; when d names i itself, the issuer signature verifies if it is
\* checked and the hashes of d and i agree if it is not. The hashes of the
\* links above d are not compared.
C39_ValidImpliesOnIssuerPath ==
    \A i \in DOMAIN net.tokens, d \in DOMAIN net.tokens :
       LET v == verify_token_as_issuer(net, i, d)
       IN  (v.returns /\ v.valid) =>
              /\ PlacesOnPath(i, d) # {}
              /\ Tok(net, d).issuer_id = i =>
                    IF SignatureChecked(i, d)
                    THEN verify_issuer_signature(Tok(net, d), net.node_keys[i], i)
                    ELSE HashesAgree(i, d)

\* verify_as_issuer has accepted a node two links above a token of a loaded
\* store in which a link between them has a rewritten issuer hash
C39_Witness ==
    /\ last.op = "verify_token_as_issuer" /\ last.ok
    /\ HasToken(net, last.a1) /\ HasToken(net, last.a2)
    /\ 3 \in PlacesOnPath(last.a1, last.a2)
    /\ ~Continuous(last.a2, 3)
    /\ edits > 0

====
